---- MODULE Spec2Model ----
(***************************************************************************)
(* A model of the multi-signature treasury controller of                   *)
(* Deboproj/treasury_system: the Treasury object (treasury.py), its domain *)
(* model (models.py), the policy set (policies.py) and the emergency       *)
(* module (emergency.py).                                                  *)
(*                                                                         *)
(* Conventions.                                                            *)
(*  - A Python Optional is a sequence: << >> is None, <<v>> is the value v.*)
(*  - A dict is a function whose DOMAIN is the set of keys present; the    *)
(*    proposals dict, keyed by a fresh uuid4, is a sequence whose index is *)
(*    the proposal id (the n-th created proposal has id n).                *)
(*  - Amounts are integers (the source uses floats; NaN and rounding are   *)
(*    outside the model). Times are integer seconds.                       *)
(*  - Every public call is one action. A call that raises leaves the state *)
(*    as the code leaves it and records the exception type in last.result. *)
(*  - Transaction.description / metadata and the wall-clock fields         *)
(*    (TreasuryBalance.last_updated, TreasuryAuditLog.timestamp) are read  *)
(*    by no decision of the code and are left out.                         *)
(***************************************************************************)
EXTENDS Integers, Sequences, FiniteSets, TLC

VARIABLES
    constructed,          \* Treasury.__init__ has returned
    signers,              \* config.signers
    threshold,            \* config.threshold
    emergency_threshold,  \* config.emergency_threshold (= emergency_module.emergency_threshold)
    emergency_signers,    \* config.emergency_signers (the same object as emergency_module.emergency_signers)
    es_shared,            \* config.emergency_signers is the very set object config.signers
    last_emergency_at,    \* config.last_emergency_at
    balances,             \* Treasury.balances: coin_type -> amount
    proposals,            \* Treasury.proposals
    policies,             \* policy_manager.policies, in insertion order
    actions,              \* emergency_module.actions
    spending_records,     \* Treasury.spending_records
    audit_logs,           \* Treasury.audit_logs
    frozen,               \* Treasury.frozen
    last,                 \* the last call made and how it ended
    log_limit             \* the audit entries a behaviour is followed for

vars == <<constructed, signers, threshold, emergency_threshold, emergency_signers,
          es_shared, last_emergency_at, balances, proposals, policies, actions,
          spending_records, audit_logs, frozen, last, log_limit>>

configVars == <<signers, threshold, emergency_threshold, emergency_signers, es_shared>>

----------------------------------------------------------------------------
(* Bounds of the model *)

\* entries of the audit log in one behaviour: the calls that succeed (or fail
\* in execution) are that many (one more in the behaviours that start from
\* InitLong)
MaxLog == 4

(* Program constants *)

MaxTransactions == 50
EmergencyCooldown == 86400

----------------------------------------------------------------------------
(* Values *)

None == << >>
Some(v) == <<v>>

Ids == {"a", "b", "c"}

PENDING == "pending"
TIME_LOCKED == "time_locked"
READY_TO_EXECUTE == "ready_to_execute"
EXECUTED == "executed"
CANCELLED == "cancelled"
FAILED == "failed"

ProposalStatus == {PENDING, TIME_LOCKED, READY_TO_EXECUTE, EXECUTED, CANCELLED, FAILED}

Category == {"operations", "marketing", "development", "research", "security", "other"}

Max(x, y) == IF x >= y THEN x ELSE y

RECURSIVE SumSeq(_)
SumSeq(s) == IF s = << >> THEN 0 ELSE Head(s) + SumSeq(Tail(s))

\* The call just made: its name, the acting identity, the proposal or
\* emergency action id (0 when the call has none), the current_time passed
\* (0 when the call takes none), "ok" or the exception type raised, and
\* config.signers as the call found it.
Call(op, actor, id, time, result) ==
    [op |-> op, actor |-> actor, id |-> id, time |-> time, result |-> result,
     signers |-> signers]

\* Before any call; __init__ and add_policy after they returned
NoCall == Call("none", "-", 0, 0, "ok")
ConstructReturned == Call("__init__", "-", 0, 0, "ok")
AddPolicyReturned == Call("add_policy", "-", 0, 0, "ok")

\* Treasury._audit_log
TreasuryAuditLog(action, actor, proposal_id, details) ==
    [action |-> action, actor |-> actor, proposal_id |-> proposal_id, details |-> details]

\* _audit_log keeping the newest entry only
_audit_log_overwriting(action, actor, proposal_id, details) ==
    <<TreasuryAuditLog(action, actor, proposal_id, details)>>

_audit_log(action, actor, proposal_id, details) ==
    Append(audit_logs, TreasuryAuditLog(action, actor, proposal_id, details))

\* A call that raises before it has changed anything.
Raise(op, actor, id, time, exc) ==
    /\ last' = Call(op, actor, id, time, exc)
    /\ UNCHANGED <<log_limit, constructed, configVars, last_emergency_at, balances, proposals,
                   policies, actions, spending_records, audit_logs, frozen>>

----------------------------------------------------------------------------
(* Construction *)

\* Before Treasury.__init__: nothing exists yet
Unconstructed ==
    /\ constructed = FALSE
    /\ signers = {}
    /\ threshold = 0
    /\ emergency_threshold = 0
    /\ emergency_signers = {}
    /\ es_shared = FALSE
    /\ last_emergency_at = None
    /\ balances = << >>
    /\ proposals = << >>
    /\ policies = << >>
    /\ actions = << >>
    /\ spending_records = << >>
    /\ audit_logs = << >>
    /\ frozen = FALSE
    /\ last = NoCall

Init ==
    /\ Unconstructed
    /\ log_limit = MaxLog

\* The same start, for behaviours followed one audit entry further
InitLong ==
    /\ Unconstructed
    /\ log_limit = MaxLog + 1

\* The same start, for behaviours followed two audit entries further
InitLonger ==
    /\ Unconstructed
    /\ log_limit = MaxLog + 2

\* Python's `x or default` on an Optional[int]: None and 0 are falsy.
IntOr(x, default) == IF x = None \/ x = Some(0) THEN default ELSE x[1]

\* Python's `x or default` on an Optional[set]: None and set() are falsy.
SetIsFalsy(x) == x = None \/ x = Some({})

\* Treasury.__init__(treasury_id, signers, threshold, emergency_threshold, emergency_signers)
Construct(sg, th, et, es) ==
    /\ ~constructed
    /\ IF th > Cardinality(sg)
       THEN Raise("__init__", "-", 0, 0, "ValueError")
       ELSE /\ constructed' = TRUE
            /\ signers' = sg
            /\ threshold' = th
            /\ emergency_threshold' = IntOr(et, (Cardinality(sg) \div 2) + 1)
            /\ emergency_signers' = IF SetIsFalsy(es) THEN sg ELSE es[1]
            /\ es_shared' = SetIsFalsy(es)
            /\ last' = ConstructReturned
            /\ UNCHANGED <<log_limit, last_emergency_at, balances, proposals, policies, actions,
                           spending_records, audit_logs, frozen>>

----------------------------------------------------------------------------
(* Signer management *)

\* `x not in self.config.signers` passing everyone
IsSigner_anyone(identity) == TRUE

\* The signer check of add_signer, remove_signer, create_proposal and
\* sign_proposal: `x in self.config.signers`
IsSigner(identity) == identity \in signers

\* Treasury.add_signer
add_signer(new_signer, authorizer) ==
    /\ constructed
    /\ IF ~IsSigner(authorizer)
       THEN Raise("add_signer", authorizer, 0, 0, "PermissionError")
       ELSE /\ Len(audit_logs) < log_limit
            /\ signers' = signers \cup {new_signer}
            /\ emergency_signers' = IF es_shared THEN signers \cup {new_signer}
                                                 ELSE emergency_signers
            /\ audit_logs' = _audit_log("add_signer", authorizer, None,
                                        [new_signer |-> new_signer])
            /\ last' = Call("add_signer", authorizer, 0, 0, "ok")
            /\ UNCHANGED <<log_limit, constructed, threshold, emergency_threshold, es_shared,
                           last_emergency_at, balances, proposals, policies, actions,
                           spending_records, frozen>>

\* remove_signer's threshold check with < for <=
RemovalRefused_strict == Cardinality(signers) < threshold

\* remove_signer's threshold check
RemovalRefused == Cardinality(signers) <= threshold

\* set.discard(x) on a copy of the set: the set itself keeps x
discard_from_copy(S, x) == S

\* set.discard(x)
discard(S, x) == S \ {x}

\* Treasury.remove_signer
remove_signer(signer_to_remove, authorizer) ==
    /\ constructed
    /\ IF ~IsSigner(authorizer)
       THEN Raise("remove_signer", authorizer, 0, 0, "PermissionError")
       ELSE IF RemovalRefused
       THEN Raise("remove_signer", authorizer, 0, 0, "ValueError")
       ELSE /\ Len(audit_logs) < log_limit
            /\ signers' = discard(signers, signer_to_remove)
            /\ emergency_signers' = discard(emergency_signers, signer_to_remove)
            /\ audit_logs' = _audit_log("remove_signer", authorizer, None,
                                        [removed_signer |-> signer_to_remove])
            /\ last' = Call("remove_signer", authorizer, 0, 0, "ok")
            /\ UNCHANGED <<log_limit, constructed, threshold, emergency_threshold, es_shared,
                           last_emergency_at, balances, proposals, policies, actions,
                           spending_records, frozen>>

----------------------------------------------------------------------------
(* Balances *)

\* Treasury.get_balance
get_balance(coin_type) ==
    IF coin_type \notin DOMAIN balances THEN 0 ELSE balances[coin_type]

\* withdraw without its `amount > self.amount` check
withdraw_unchecked(balance, amount) ==
    IF amount <= 0 THEN [result |-> "ValueError", amount |-> balance]
    ELSE [result |-> "True", amount |-> balance - amount]

\* TreasuryBalance.withdraw: "ValueError" when it raises, else what it
\* returns, and the amount the balance holds afterwards
withdraw(balance, amount) ==
    IF amount <= 0 THEN [result |-> "ValueError", amount |-> balance]
    ELSE IF amount > balance THEN [result |-> "False", amount |-> balance]
    ELSE [result |-> "True", amount |-> balance - amount]

\* TreasuryBalance.deposit storing the amount instead of adding it
credit_overwriting(balance, amount) == amount

\* TreasuryBalance.deposit: self.amount += amount
credit(balance, amount) == balance + amount

\* Treasury.deposit (TreasuryBalance.deposit repeats the amount check)
deposit(coin_type, amount, depositor) ==
    /\ constructed
    /\ IF amount <= 0
       THEN Raise("deposit", depositor, 0, 0, "ValueError")
       ELSE /\ Len(audit_logs) < log_limit
            /\ balances' = [c \in (DOMAIN balances) \cup {coin_type} |->
                               IF c = coin_type THEN credit(get_balance(c), amount)
                                                ELSE balances[c]]
            /\ audit_logs' = _audit_log("deposit", depositor, None,
                                        [coin_type |-> coin_type, amount |-> amount])
            /\ last' = Call("deposit", depositor, 0, 0, "ok")
            /\ UNCHANGED <<log_limit, constructed, configVars, last_emergency_at, proposals,
                           policies, actions, spending_records, frozen>>

----------------------------------------------------------------------------
(* Policies (policies.py). A policy object is a record; its "type" field   *)
(* is the class, the other fields are the attributes its __init__ sets.    *)

SECONDS_PER_HOUR == 3600
SECONDS_PER_DAY == 86400
DAYS_PER_WEEK == 7
DefaultBaseLock == 3600
DefaultRequiredThreshold == 2

\* Time 0 is Monday 2024-01-01 00:00 local time; the lengths of the months
\* that follow, in days.
MonthDays == <<31, 29, 31, 30, 31, 30, 31, 31, 30, 31, 30, 31>>

RECURSIVE MonthStartFrom(_, _, _)
MonthStartFrom(t, m, start) ==
    IF m > Len(MonthDays) \/ t < start + MonthDays[m] * SECONDS_PER_DAY
    THEN start
    ELSE MonthStartFrom(t, m + 1, start + MonthDays[m] * SECONDS_PER_DAY)

\* SpendingLimitPolicy.get_period_start
get_period_start(policy, current_time) ==
    IF policy.period_type = "daily"
    THEN current_time - (current_time % SECONDS_PER_DAY)
    ELSE IF policy.period_type = "weekly"
    THEN current_time - (current_time % (DAYS_PER_WEEK * SECONDS_PER_DAY))
    ELSE MonthStartFrom(current_time, 1, 0)

RECURSIVE SumAmounts(_, _, _)
\* sum(record.amount for record in history if keep(record))
SumAmounts(history, category, period_start) ==
    IF history = << >> THEN 0
    ELSE (IF (category = None \/ Head(history).category = category[1])
             /\ Head(history).timestamp >= period_start
          THEN Head(history).amount ELSE 0)
         + SumAmounts(Tail(history), category, period_start)

\* SpendingLimitPolicy.get_current_spending
get_current_spending(policy, category, current_time) ==
    SumAmounts(policy.spending_history, Some(category), get_period_start(policy, current_time))

\* SpendingLimitPolicy.get_global_spending
get_global_spending(policy, current_time) ==
    SumAmounts(policy.spending_history, None, get_period_start(policy, current_time))

\* Python truthiness of an Optional number: None and 0 are falsy.
Truthy(x) == x # None /\ x # Some(0)

\* SpendingLimitPolicy.validate: TRUE when it raises PolicyViolation
SpendingLimitViolation(policy, transaction, context) ==
    \/ Truthy(policy.max_per_transaction)
       /\ transaction.amount > policy.max_per_transaction[1]
    \/ context.category \in DOMAIN policy.limit_per_category
       /\ get_current_spending(policy, context.category, context.current_time)
            + transaction.amount > policy.limit_per_category[context.category]
    \/ Truthy(policy.global_limit)
       /\ get_global_spending(policy, context.current_time) + transaction.amount
            > policy.global_limit[1]

\* is_recipient_approved with <= for < on the expiry
is_recipient_approved_through_expiry(policy, recipient, current_time) ==
    IF recipient \in policy.blacklisted_recipients THEN FALSE
    ELSE IF recipient \in policy.approved_recipients THEN TRUE
    ELSE recipient \in DOMAIN policy.temporary_entries
         /\ current_time <= policy.temporary_entries[recipient]

\* WhitelistPolicy.is_recipient_approved: the answer
is_recipient_approved(policy, recipient, current_time) ==
    IF recipient \in policy.blacklisted_recipients THEN FALSE
    ELSE IF recipient \in policy.approved_recipients THEN TRUE
    ELSE recipient \in DOMAIN policy.temporary_entries
         /\ current_time < policy.temporary_entries[recipient]

\* WhitelistPolicy.is_recipient_approved: the policy it leaves behind (an
\* expired temporary entry that is looked up is deleted)
ExpireTemporary(policy, recipient, current_time) ==
    IF /\ recipient \notin policy.blacklisted_recipients
       /\ recipient \notin policy.approved_recipients
       /\ recipient \in DOMAIN policy.temporary_entries
       /\ ~(current_time < policy.temporary_entries[recipient])
    THEN [policy EXCEPT !.temporary_entries =
             [r \in (DOMAIN policy.temporary_entries) \ {recipient} |->
                 policy.temporary_entries[r]]]
    ELSE policy

\* CategoryPolicy.validate: TRUE when it raises (a Category member is never falsy)
CategoryViolation(policy, context) ==
    /\ policy.required_categories # {}
    /\ context.category \notin policy.required_categories

\* int(x / y) for y > 0: Python truncates toward zero
TruncDiv(x, y) == IF x >= 0 THEN x \div y ELSE -((-x) \div y)

\* TimeLockPolicy.calculate_lock_duration
calculate_lock_duration(policy, amount, category) ==
    (IF category \in DOMAIN policy.base_lock_duration
     THEN policy.base_lock_duration[category] ELSE DefaultBaseLock)
    + TruncDiv(amount, policy.amount_factor) * SECONDS_PER_HOUR

RECURSIVE FirstRange(_, _)
\* AmountThresholdPolicy.get_required_threshold: the loop over self.thresholds
FirstRange(thresholds, amount) ==
    IF thresholds = << >> THEN None
    ELSE IF Head(thresholds)[1] <= amount /\ amount < Head(thresholds)[2]
    THEN Some(Head(thresholds)[3])
    ELSE FirstRange(Tail(thresholds), amount)

\* AmountThresholdPolicy.get_required_threshold
policy_required_threshold(policy, amount) ==
    IF FirstRange(policy.thresholds, amount) # None
    THEN FirstRange(policy.thresholds, amount)[1]
    ELSE IF policy.thresholds # << >>
    THEN policy.thresholds[Len(policy.thresholds)][3]
    ELSE DefaultRequiredThreshold

\* ApprovalPolicy.validate without its loop over the veto signers
ApprovalViolation_without_veto(policy, context) ==
    /\ context.category \in DOMAIN policy.required_signers_by_category
    /\ ~(policy.required_signers_by_category[context.category] \subseteq context.signatures)

\* ApprovalPolicy.validate: TRUE when it raises. context.signatures is the
\* key set of the signatures dict.
ApprovalViolation(policy, context) ==
    \/ context.category \in DOMAIN policy.required_signers_by_category
       /\ ~(policy.required_signers_by_category[context.category] \subseteq context.signatures)
    \/ policy.veto_signers \cap context.signatures # {}

\* BasePolicy.validate, by class: does it raise PolicyViolation?
Violates(policy, transaction, context) ==
    /\ policy.enabled
    /\ CASE policy.type = "spending_limit" -> SpendingLimitViolation(policy, transaction, context)
         [] policy.type = "whitelist" ->
                ~is_recipient_approved(policy, transaction.recipient, context.current_time)
         [] policy.type = "category" -> CategoryViolation(policy, context)
         [] policy.type = "approval" -> ApprovalViolation(policy, context)
         [] OTHER -> FALSE

\* BasePolicy.validate, by class: the policy object after the call
AfterValidate(policy, transaction, context) ==
    IF policy.enabled /\ policy.type = "whitelist"
    THEN ExpireTemporary(policy, transaction.recipient, context.current_time)
    ELSE policy

RECURSIVE validate_from(_, _, _, _)
\* PolicyManager.validate_transaction from the i-th policy on: the policies
\* after the call and the policy_id of the violation raised, if any
validate_from(ps, i, transaction, context) ==
    IF i > Len(ps) THEN [policies |-> ps, error |-> None]
    ELSE LET after == [ps EXCEPT ![i] = AfterValidate(ps[i], transaction, context)] IN
         IF Violates(ps[i], transaction, context)
         THEN [policies |-> after, error |-> Some(ps[i].policy_id)]
         ELSE validate_from(after, i + 1, transaction, context)

\* PolicyManager.validate_transaction
validate_transaction(ps, transaction, context) == validate_from(ps, 1, transaction, context)

SetMax(S) == CHOOSE x \in S : \A y \in S : y <= x

\* get_required_time_lock keeping the lock of the last transaction instead of
\* the maximum
get_required_time_lock_last(ps, transactions, category) ==
    SetMax({0} \cup
           {calculate_lock_duration(ps[i], transactions[Len(transactions)].amount, category) :
               i \in {j \in 1..Len(ps) : ps[j].type = "timelock" /\ ps[j].enabled}})

\* PolicyManager.get_required_time_lock: the context starts at 0 and every
\* enabled TimeLockPolicy raises it to its lock for every transaction
get_required_time_lock(ps, transactions, category) ==
    SetMax({0} \cup
           {calculate_lock_duration(ps[i], transactions[k].amount, category) :
               i \in {j \in 1..Len(ps) : ps[j].type = "timelock" /\ ps[j].enabled},
               k \in 1..Len(transactions)})

\* PolicyManager.get_required_threshold: the context starts at 0; when the
\* largest amount is positive every enabled AmountThresholdPolicy raises it
\* to its threshold for every transaction; context.get(key, 2) finds the key
get_required_threshold(ps, transactions) ==
    SetMax({0} \cup
           {policy_required_threshold(ps[i], transactions[k].amount) :
               i \in {j \in 1..Len(ps) : /\ ps[j].type = "amount_threshold"
                                         /\ ps[j].enabled
                                         /\ SetMax({transactions[n].amount :
                                                      n \in 1..Len(transactions)}) > 0},
               k \in 1..Len(transactions)})

\* PolicyManager.add_policy: a dict keeps the position of a key it already has
add_policy(policy) ==
    /\ constructed
    /\ policies' = IF \E i \in 1..Len(policies) : policies[i].policy_id = policy.policy_id
                   THEN [i \in 1..Len(policies) |->
                            IF policies[i].policy_id = policy.policy_id
                            THEN policy ELSE policies[i]]
                   ELSE Append(policies, policy)
    /\ last' = AddPolicyReturned
    /\ UNCHANGED <<log_limit, constructed, configVars, last_emergency_at, balances, proposals,
                   actions, spending_records, audit_logs, frozen>>

\* SpendingLimitPolicy.__init__
SpendingLimitPolicy(policy_id, period_type, limit_per_category, global_limit, max_per_transaction) ==
    [type |-> "spending_limit", policy_id |-> policy_id, enabled |-> TRUE,
     period_type |-> period_type, limit_per_category |-> limit_per_category,
     global_limit |-> global_limit, max_per_transaction |-> max_per_transaction,
     spending_history |-> << >>]

\* WhitelistPolicy.__init__
WhitelistPolicy(policy_id, enabled) ==
    [type |-> "whitelist", policy_id |-> policy_id, enabled |-> enabled,
     approved_recipients |-> {}, blacklisted_recipients |-> {},
     temporary_entries |-> << >>]

\* The registered policy objects of a class, by position
PoliciesOfType(type) == {i \in 1..Len(policies) : policies[i].type = type}

\* A call of a method of a policy object
PolicyCall(op, result) == Call(op, "-", 0, 0, result)

\* A policy method that raises before any assignment
PolicyRaise(op, result) ==
    /\ last' = PolicyCall(op, result)
    /\ UNCHANGED <<log_limit, constructed, configVars, last_emergency_at, balances, proposals,
                   policies, actions, spending_records, audit_logs, frozen>>

\* A policy method that returns, leaving its object as after
PolicyReturn(op, i, after) ==
    /\ policies' = [policies EXCEPT ![i] = after]
    /\ last' = PolicyCall(op, "ok")
    /\ UNCHANGED <<log_limit, constructed, configVars, last_emergency_at, balances, proposals,
                   actions, spending_records, audit_logs, frozen>>

\* SpendingLimitPolicy.add_spending_record
add_spending_record(i, record) ==
    /\ i \in PoliciesOfType("spending_limit")
    /\ PolicyReturn("add_spending_record", i,
                    [policies[i] EXCEPT !.spending_history = Append(@, record)])

\* dict.pop(key, None): the dict left behind
pop(d, key) == [k \in (DOMAIN d) \ {key} |-> d[k]]

\* d[key] = value: the dict left behind
setitem(d, key, value) == [k \in (DOMAIN d) \cup {key} |-> IF k = key THEN value ELSE d[k]]

\* `recipient in self.blacklisted_recipients` of add_recipient and
\* add_temporary_recipient
IsBlacklisted(policy, recipient) == recipient \in policy.blacklisted_recipients

\* WhitelistPolicy.add_recipient
add_recipient(i, recipient) ==
    /\ i \in PoliciesOfType("whitelist")
    /\ IF IsBlacklisted(policies[i], recipient)
       THEN PolicyRaise("add_recipient", "ValueError")
       ELSE PolicyReturn("add_recipient", i,
                [policies[i] EXCEPT !.approved_recipients = @ \cup {recipient}])

\* WhitelistPolicy.add_temporary_recipient
add_temporary_recipient(i, recipient, expires_at) ==
    /\ i \in PoliciesOfType("whitelist")
    /\ IF IsBlacklisted(policies[i], recipient)
       THEN PolicyRaise("add_temporary_recipient", "ValueError")
       ELSE PolicyReturn("add_temporary_recipient", i,
                [policies[i] EXCEPT !.temporary_entries = setitem(@, recipient, expires_at)])

\* WhitelistPolicy.remove_recipient
remove_recipient(i, recipient) ==
    /\ i \in PoliciesOfType("whitelist")
    /\ PolicyReturn("remove_recipient", i,
           [policies[i] EXCEPT !.approved_recipients = @ \ {recipient},
                               !.temporary_entries = pop(@, recipient)])

\* blacklist_recipient leaving the approved and temporary entries in place
Blacklisted_keeping_entries(policy, recipient) ==
    [policy EXCEPT !.blacklisted_recipients = @ \cup {recipient}]

\* WhitelistPolicy.blacklist_recipient: the policy it leaves behind
Blacklisted(policy, recipient) ==
    [policy EXCEPT !.approved_recipients = @ \ {recipient},
                   !.temporary_entries = pop(@, recipient),
                   !.blacklisted_recipients = @ \cup {recipient}]

\* WhitelistPolicy.blacklist_recipient
blacklist_recipient(i, recipient) ==
    /\ i \in PoliciesOfType("whitelist")
    /\ PolicyReturn("blacklist_recipient", i, Blacklisted(policies[i], recipient))

----------------------------------------------------------------------------
(* Proposals *)

\* Transaction
Transaction(tx_id, tx_type, recipient, amount, coin_type) ==
    [tx_id |-> tx_id, tx_type |-> tx_type, recipient |-> recipient,
     amount |-> amount, coin_type |-> coin_type]

\* Transaction.compute_hash: sha256 of the canonical JSON of the fields, an
\* injective encoding of them
compute_hash(transaction) ==
    <<transaction.tx_id, transaction.tx_type, transaction.recipient,
      transaction.amount, transaction.coin_type>>

\* Treasury._compute_proposal_hash
_compute_proposal_hash(proposal_id, proposal) ==
    <<proposal_id,
      [k \in 1..Len(proposal.transactions) |-> compute_hash(proposal.transactions[k])],
      proposal.category>>

\* The statuses can_execute accepts, and those sign_proposal accepts
ExecutableStatuses == {PENDING, TIME_LOCKED}
SignableStatuses == {PENDING, TIME_LOCKED}

\* can_execute with > for >= on the time lock
can_execute_after_unlock(proposal, current_time) ==
    /\ current_time > proposal.created_at + proposal.time_lock_duration
    /\ Cardinality(DOMAIN proposal.signatures) >= proposal.threshold_required
    /\ proposal.status \in ExecutableStatuses

\* can_execute counting the signatures of current signers only
can_execute_counting_current_signers(proposal, current_time) ==
    /\ current_time >= proposal.created_at + proposal.time_lock_duration
    /\ Cardinality(DOMAIN proposal.signatures \cap signers) >= proposal.threshold_required
    /\ proposal.status \in ExecutableStatuses

\* can_execute without its signature-count check
can_execute_without_threshold(proposal, current_time) ==
    /\ current_time >= proposal.created_at + proposal.time_lock_duration
    /\ proposal.status \in ExecutableStatuses

\* can_execute without its status check
can_execute_any_status(proposal, current_time) ==
    /\ current_time >= proposal.created_at + proposal.time_lock_duration
    /\ Cardinality(DOMAIN proposal.signatures) >= proposal.threshold_required

\* Proposal.can_execute
can_execute(proposal, current_time) ==
    /\ current_time >= proposal.created_at + proposal.time_lock_duration
    /\ Cardinality(DOMAIN proposal.signatures) >= proposal.threshold_required
    /\ proposal.status \in ExecutableStatuses

\* sign_proposal's status check
Signable(proposal) == proposal.status \in SignableStatuses

\* sign_proposal's duplicate check never finding the signer
AlreadySigned_never(proposal, signer) == FALSE

\* sign_proposal's duplicate check: `signer in proposal.signatures`
AlreadySigned(proposal, signer) == signer \in DOMAIN proposal.signatures

\* create_proposal's `if self.frozen` never taken
CreationFrozen_never == FALSE

\* create_proposal's `if self.frozen`
CreationFrozen == frozen

\* The context dict create_proposal and execute_proposal hand to the policies
Context(category, current_time, signatures) ==
    [category |-> category, current_time |-> current_time, signatures |-> signatures]

RECURSIVE validate_each(_, _, _)
\* create_proposal's loop: validate_transaction on each transaction in turn,
\* stopping at the first PolicyViolation
validate_each(ps, transactions, context) ==
    IF transactions = << >> THEN [policies |-> ps, error |-> None]
    ELSE LET r == validate_transaction(ps, Head(transactions), context) IN
         IF r.error # None THEN r
         ELSE validate_each(r.policies, Tail(transactions), context)

\* create_proposal storing the proposal as Pending
InitialStatus_pending == PENDING

\* create_proposal: Proposal(..., status=ProposalStatus.TIME_LOCKED)
InitialStatus == TIME_LOCKED

\* Treasury.create_proposal
create_proposal(creator, transactions, category, current_time) ==
    /\ constructed
    /\ IF ~IsSigner(creator)
       THEN Raise("create_proposal", creator, 0, current_time, "PermissionError")
       ELSE IF CreationFrozen
       THEN Raise("create_proposal", creator, 0, current_time, "RuntimeError")
       ELSE IF transactions = << >> \/ Len(transactions) > MaxTransactions
       THEN Raise("create_proposal", creator, 0, current_time, "ValueError")
       ELSE LET r == validate_each(policies, transactions, Context(category, current_time, {}))
                proposal_id == Len(proposals) + 1
                time_lock_duration == get_required_time_lock(policies, transactions, category)
                required_threshold == Max(threshold, get_required_threshold(policies, transactions))
            IN
            IF r.error # None
            THEN /\ policies' = r.policies
                 /\ last' = Call("create_proposal", creator, 0, current_time, "PolicyViolation")
                 /\ UNCHANGED <<log_limit, constructed, configVars, last_emergency_at, balances,
                                proposals, actions, spending_records, audit_logs, frozen>>
            ELSE /\ Len(audit_logs) < log_limit
                 /\ policies' = r.policies
                 /\ proposals' = Append(proposals,
                        [creator |-> creator,
                         transactions |-> transactions,
                         category |-> category,
                         threshold_required |-> required_threshold,
                         created_at |-> current_time,
                         time_lock_duration |-> time_lock_duration,
                         status |-> InitialStatus,
                         signatures |-> << >>,
                         executed_at |-> None,
                         cancelled_at |-> None])
                 /\ audit_logs' = _audit_log("create_proposal", creator, Some(proposal_id),
                        [transactions |-> Len(transactions),
                         category |-> category,
                         time_lock_duration |-> time_lock_duration,
                         threshold |-> required_threshold])
                 /\ last' = Call("create_proposal", creator, proposal_id, current_time, "ok")
                 /\ UNCHANGED <<log_limit, constructed, configVars, last_emergency_at, balances,
                                actions, spending_records, frozen>>

\* Treasury.sign_proposal
sign_proposal(proposal_id, signer, signature, current_time) ==
    /\ constructed
    /\ IF proposal_id \notin DOMAIN proposals
       THEN Raise("sign_proposal", signer, proposal_id, current_time, "ValueError")
       ELSE IF ~IsSigner(signer)
       THEN Raise("sign_proposal", signer, proposal_id, current_time, "PermissionError")
       ELSE IF ~Signable(proposals[proposal_id])
       THEN Raise("sign_proposal", signer, proposal_id, current_time, "ValueError")
       ELSE IF AlreadySigned(proposals[proposal_id], signer)
       THEN Raise("sign_proposal", signer, proposal_id, current_time, "ValueError")
       ELSE LET proposal == proposals[proposal_id]
                sig == [signer |-> signer, signature |-> signature,
                        timestamp |-> current_time,
                        tx_hash |-> _compute_proposal_hash(proposal_id, proposal)]
            IN
            /\ Len(audit_logs) < log_limit
            /\ proposals' = [proposals EXCEPT ![proposal_id].signatures =
                   [s \in (DOMAIN proposal.signatures) \cup {signer} |->
                       IF s = signer THEN sig ELSE proposal.signatures[s]]]
            /\ audit_logs' = _audit_log("sign_proposal", signer, Some(proposal_id),
                   [signature_count |-> Cardinality(DOMAIN proposal.signatures) + 1])
            /\ last' = Call("sign_proposal", signer, proposal_id, current_time, "ok")
            /\ UNCHANGED <<log_limit, constructed, configVars, last_emergency_at, balances,
                           policies, actions, spending_records, frozen>>

\* SpendingRecord recording no amount
SpendingRecord_of_nothing(amount, timestamp, category, proposal_id, tx_hash) ==
    [amount |-> 0, timestamp |-> timestamp, category |-> category,
     proposal_id |-> proposal_id, tx_hash |-> tx_hash]

\* SpendingRecord
SpendingRecord(amount, timestamp, category, proposal_id, tx_hash) ==
    [amount |-> amount, timestamp |-> timestamp, category |-> category,
     proposal_id |-> proposal_id, tx_hash |-> tx_hash]

RECURSIVE execute_from(_, _, _, _, _)
\* execute_proposal's loop from the k-th transaction on, on the policies,
\* balances and spending records st reached so far: what the loop leaves
\* behind and the exception that ended it, if any
execute_from(st, proposal_id, proposal, k, current_time) ==
    IF k > Len(proposal.transactions) THEN [st EXCEPT !.error = None]
    ELSE LET transaction == proposal.transactions[k]
             r == validate_transaction(st.policies, transaction,
                      Context(proposal.category, current_time, DOMAIN proposal.signatures))
             validated == [st EXCEPT !.policies = r.policies]
         IN
         IF r.error # None
         THEN [validated EXCEPT !.error = Some("PolicyViolation")]
         ELSE IF transaction.coin_type \notin DOMAIN st.balances
         THEN [validated EXCEPT !.error = Some("ValueError")]
         ELSE LET w == withdraw(st.balances[transaction.coin_type], transaction.amount) IN
              IF w.result # "True"
              THEN [validated EXCEPT !.error = Some("ValueError")]
              ELSE execute_from(
                      [validated EXCEPT
                         !.balances[transaction.coin_type] = w.amount,
                         !.spending_records = Append(@,
                             SpendingRecord(transaction.amount, current_time,
                                            proposal.category, proposal_id,
                                            compute_hash(transaction)))],
                      proposal_id, proposal, k + 1, current_time)

\* execute_proposal's except branch leaving the status as it was
Failed_left_open(proposal) == proposal

\* execute_proposal's except branch: proposal.status = ProposalStatus.FAILED
Failed(proposal) == [proposal EXCEPT !.status = FAILED]

\* Treasury.execute_proposal
execute_proposal(proposal_id, executor, current_time) ==
    /\ constructed
    /\ IF proposal_id \notin DOMAIN proposals
       THEN Raise("execute_proposal", executor, proposal_id, current_time, "ValueError")
       ELSE IF ~can_execute(proposals[proposal_id], current_time)
       THEN Raise("execute_proposal", executor, proposal_id, current_time, "ValueError")
       ELSE LET proposal == proposals[proposal_id]
                r == execute_from([policies |-> policies, balances |-> balances,
                                   spending_records |-> spending_records, error |-> None],
                                  proposal_id, proposal, 1, current_time)
            IN
            /\ Len(audit_logs) < log_limit
            /\ policies' = r.policies
            /\ balances' = r.balances
            /\ spending_records' = r.spending_records
            /\ IF r.error = None
               THEN /\ proposals' = [proposals EXCEPT ![proposal_id].status = EXECUTED,
                                                      ![proposal_id].executed_at = Some(current_time)]
                    /\ audit_logs' = _audit_log("execute_proposal", executor, Some(proposal_id),
                           [transactions |-> Len(proposal.transactions),
                            total_amount |-> SumSeq([k \in 1..Len(proposal.transactions) |->
                                                        proposal.transactions[k].amount])])
                    /\ last' = Call("execute_proposal", executor, proposal_id, current_time, "ok")
               ELSE /\ proposals' = [proposals EXCEPT ![proposal_id] = Failed(@)]
                    /\ audit_logs' = _audit_log("execute_proposal_failed", executor,
                           Some(proposal_id), [error |-> r.error[1]])
                    /\ last' = Call("execute_proposal", executor, proposal_id, current_time,
                                    r.error[1])
            /\ UNCHANGED <<log_limit, constructed, configVars, last_emergency_at, actions, frozen>>

\* cancel_proposal's status checks: the statuses it refuses
CancelRefused(proposal) == proposal.status = EXECUTED \/ proposal.status = CANCELLED

\* cancel_proposal putting the proposal back to Pending
Cancelled_reopening(proposal, current_time) ==
    [proposal EXCEPT !.status = PENDING, !.cancelled_at = Some(current_time)]

\* cancel_proposal's assignments
Cancelled(proposal, current_time) ==
    [proposal EXCEPT !.status = CANCELLED, !.cancelled_at = Some(current_time)]

\* cancel_proposal's permission check admitting the creator alone
CancelDenied_unless_creator(proposal, canceller) ==
    proposal.creator # canceller

\* cancel_proposal's permission check
CancelDenied(proposal, canceller) ==
    /\ proposal.creator # canceller
    /\ canceller \notin DOMAIN proposal.signatures

\* Treasury.cancel_proposal
cancel_proposal(proposal_id, canceller, current_time) ==
    /\ constructed
    /\ IF proposal_id \notin DOMAIN proposals
       THEN Raise("cancel_proposal", canceller, proposal_id, current_time, "ValueError")
       ELSE IF CancelDenied(proposals[proposal_id], canceller)
       THEN Raise("cancel_proposal", canceller, proposal_id, current_time, "PermissionError")
       ELSE IF CancelRefused(proposals[proposal_id])
       THEN Raise("cancel_proposal", canceller, proposal_id, current_time, "ValueError")
       ELSE /\ Len(audit_logs) < log_limit
            /\ proposals' = [proposals EXCEPT ![proposal_id] = Cancelled(@, current_time)]
            /\ audit_logs' = _audit_log("cancel_proposal", canceller, Some(proposal_id), << >>)
            /\ last' = Call("cancel_proposal", canceller, proposal_id, current_time, "ok")
            /\ UNCHANGED <<log_limit, constructed, configVars, last_emergency_at, balances,
                           policies, actions, spending_records, frozen>>

----------------------------------------------------------------------------
(* Emergency freeze (Treasury's emergency methods and EmergencyModule) *)

\* can_trigger_emergency with > for >= on the cooldown
can_trigger_emergency_after_cooldown(current_time) ==
    IF last_emergency_at = None THEN TRUE
    ELSE current_time - last_emergency_at[1] > EmergencyCooldown

\* TreasuryConfig.can_trigger_emergency
can_trigger_emergency(current_time) ==
    IF last_emergency_at = None THEN TRUE
    ELSE current_time - last_emergency_at[1] >= EmergencyCooldown

\* EmergencyAction
EmergencyAction(action_type, initiated_by, initiated_at, reason) ==
    [action_type |-> action_type, initiated_by |-> initiated_by,
     initiated_at |-> initiated_at, reason |-> reason,
     signatures |-> << >>, executed |-> FALSE, executed_at |-> None]

\* Treasury.trigger_emergency_freeze, with EmergencyModule.create_emergency_action
\* (whose own signer check reads the same set and cannot fail here)
trigger_emergency_freeze(initiator, reason, current_time) ==
    /\ constructed
    /\ IF initiator \notin emergency_signers
       THEN Raise("trigger_emergency_freeze", initiator, 0, current_time, "PermissionError")
       ELSE IF ~can_trigger_emergency(current_time)
       THEN Raise("trigger_emergency_freeze", initiator, 0, current_time, "RuntimeError")
       ELSE LET action_id == Len(actions) + 1 IN
            /\ Len(audit_logs) < log_limit
            /\ actions' = Append(actions,
                                 EmergencyAction("freeze", initiator, current_time, reason))
            /\ audit_logs' = _audit_log("emergency_freeze_initiated", initiator, None,
                                        [action_id |-> action_id, reason |-> reason])
            /\ last' = Call("trigger_emergency_freeze", initiator, action_id, current_time, "ok")
            /\ UNCHANGED <<log_limit, constructed, configVars, last_emergency_at, balances,
                           proposals, policies, spending_records, frozen>>

\* Treasury.sign_emergency_action, with EmergencyModule.sign_emergency_action
\* (whose own signer check reads the same set and cannot fail here)
sign_emergency_action(action_id, signer, signature, current_time) ==
    /\ constructed
    /\ IF signer \notin emergency_signers
       THEN Raise("sign_emergency_action", signer, action_id, current_time, "PermissionError")
       ELSE IF action_id \notin DOMAIN actions
       THEN Raise("sign_emergency_action", signer, action_id, current_time, "ValueError")
       ELSE IF signer \in DOMAIN actions[action_id].signatures
       THEN Raise("sign_emergency_action", signer, action_id, current_time, "ValueError")
       ELSE IF actions[action_id].executed
       THEN Raise("sign_emergency_action", signer, action_id, current_time, "ValueError")
       ELSE LET action == actions[action_id]
                sig == [signer |-> signer, signature |-> signature,
                        timestamp |-> current_time, tx_hash |-> action_id]
            IN
            /\ Len(audit_logs) < log_limit
            /\ actions' = [actions EXCEPT ![action_id].signatures =
                   [s \in (DOMAIN action.signatures) \cup {signer} |->
                       IF s = signer THEN sig ELSE action.signatures[s]]]
            /\ audit_logs' = _audit_log("emergency_action_signed", signer, None,
                                        [action_id |-> action_id])
            /\ last' = Call("sign_emergency_action", signer, action_id, current_time, "ok")
            /\ UNCHANGED <<log_limit, constructed, configVars, last_emergency_at, balances,
                           proposals, policies, spending_records, frozen>>

\* execute_emergency_action's signature count check never refusing
QuorumMissing_never(action) == FALSE

\* execute_emergency_action's signature count check
QuorumMissing(action) == Cardinality(DOMAIN action.signatures) < emergency_threshold

\* Treasury.execute_emergency_action
execute_emergency_action(action_id, executor, current_time) ==
    /\ constructed
    /\ IF action_id \notin DOMAIN actions
       THEN Raise("execute_emergency_action", executor, action_id, current_time, "ValueError")
       ELSE IF QuorumMissing(actions[action_id])
       THEN Raise("execute_emergency_action", executor, action_id, current_time, "ValueError")
       ELSE IF actions[action_id].action_type = "freeze"
       THEN /\ Len(audit_logs) < log_limit
            /\ frozen' = TRUE
            /\ last_emergency_at' = Some(current_time)
            /\ actions' = [actions EXCEPT ![action_id].executed = TRUE,
                                          ![action_id].executed_at = Some(current_time)]
            /\ audit_logs' = _audit_log("emergency_action_executed", executor, None,
                                        [action_id |-> action_id, type |-> "freeze"])
            /\ last' = Call("execute_emergency_action", executor, action_id, current_time, "ok")
            /\ UNCHANGED <<log_limit, constructed, configVars, balances, proposals, policies,
                           spending_records>>
       ELSE Raise("execute_emergency_action", executor, action_id, current_time, "ok")

\* unfreeze_treasury's permission check never taken
UnfreezeDenied_never(signer) == FALSE

\* unfreeze_treasury's permission check
UnfreezeDenied(signer) == signer \notin emergency_signers

\* Treasury.unfreeze_treasury
unfreeze_treasury(signer, reason, current_time) ==
    /\ constructed
    /\ IF UnfreezeDenied(signer)
       THEN Raise("unfreeze_treasury", signer, 0, current_time, "PermissionError")
       ELSE IF ~frozen
       THEN Raise("unfreeze_treasury", signer, 0, current_time, "ValueError")
       ELSE /\ Len(audit_logs) < log_limit
            /\ frozen' = FALSE
            /\ audit_logs' = _audit_log("treasury_unfrozen", signer, None, [reason |-> reason])
            /\ last' = Call("unfreeze_treasury", signer, 0, current_time, "ok")
            /\ UNCHANGED <<log_limit, constructed, configVars, last_emergency_at, balances,
                           proposals, policies, actions, spending_records>>

\* EmergencyModule.add_emergency_signer: the module's emergency_signers is the
\* set object of config.emergency_signers, which is config.signers itself
\* when the treasury was constructed without emergency signers
add_emergency_signer(signer) ==
    /\ constructed
    /\ emergency_signers' = emergency_signers \cup {signer}
    /\ signers' = IF es_shared THEN emergency_signers \cup {signer} ELSE signers
    /\ last' = Call("add_emergency_signer", "-", 0, 0, "ok")
    /\ UNCHANGED <<log_limit, constructed, threshold, emergency_threshold, es_shared,
                   last_emergency_at, balances, proposals, policies, actions,
                   spending_records, audit_logs, frozen>>

\* EmergencyModule.remove_emergency_signer
remove_emergency_signer(signer) ==
    /\ constructed
    /\ IF Cardinality(emergency_signers) <= emergency_threshold
       THEN Raise("remove_emergency_signer", "-", 0, 0, "ValueError")
       ELSE /\ emergency_signers' = discard(emergency_signers, signer)
            /\ signers' = IF es_shared THEN discard(emergency_signers, signer) ELSE signers
            /\ last' = Call("remove_emergency_signer", "-", 0, 0, "ok")
            /\ UNCHANGED <<log_limit, constructed, threshold, emergency_threshold, es_shared,
                           last_emergency_at, balances, proposals, policies, actions,
                           spending_records, audit_logs, frozen>>

----------------------------------------------------------------------------
(* The calls a behaviour draws from *)

\* ApprovalPolicy(policy_id) with required and veto signers added
ApprovalPolicy(policy_id, required, veto) ==
    [type |-> "approval", policy_id |-> policy_id, enabled |-> TRUE,
     required_signers_by_category |-> required, veto_signers |-> veto,
     multi_tier_signers |-> << >>]

\* TimeLockPolicy(policy_id, amount_factor) with base_lock_duration filled in
TimeLockPolicy(policy_id, amount_factor, base) ==
    [type |-> "timelock", policy_id |-> policy_id, enabled |-> TRUE,
     base_lock_duration |-> base, amount_factor |-> amount_factor]

Transfer(amount, coin_type) == Transaction("tx", "transfer", "r1", amount, coin_type)

\* Transaction lists proposed: two debits of one coin that a balance of 2
\* covers, and two that it covers in part.
TxLists == { <<Transfer(1, "SUI"), Transfer(1, "SUI")>>,
             <<Transfer(2, "SUI"), Transfer(2, "SUI")>> }

\* A treasury of signers a and b (c is an outsider), threshold 1
CoreSigners == {"a", "b"}

ConstructCore ==
    Construct(CoreSigners, 1, None, None)

\* Amounts deposited: one a deposit refuses, one it accepts
DepositAmounts == {0, 2}

Deposit ==
    \E a \in DepositAmounts : deposit("SUI", a, "a")

\* An approval policy whose veto signer is b: creation passes it, execution
\* fails it once b has signed
VetoPolicy == ApprovalPolicy("approval", << >>, {"b"})

AddPolicy ==
    add_policy(VetoPolicy)

OneTransfer == <<Transfer(2, "SUI")>>

CreateProposal ==
    \/ \E txs \in TxLists : create_proposal("a", txs, "operations", 1)
    \/ create_proposal("c", OneTransfer, "operations", 1)

SignProposal ==
    \E p \in DOMAIN proposals, s \in Ids : sign_proposal(p, s, "sig", 0)

\* Proposals are created at time 1: a time before and one not before
ExecuteTimes == {0, 1}

ExecuteProposal ==
    \E p \in DOMAIN proposals, t \in ExecuteTimes : execute_proposal(p, "a", t)

CancelProposal ==
    \E p \in DOMAIN proposals, c \in Ids : cancel_proposal(p, c, 0)

Next ==
    \/ ConstructCore
    \/ Deposit
    \/ AddPolicy
    \/ CreateProposal
    \/ SignProposal
    \/ ExecuteProposal
    \/ CancelProposal

Spec == Init /\ [][Next]_vars

----------------------------------------------------------------------------
(* Signer management on its own: every way of constructing a treasury over *)
(* up to three identities, then add_signer and remove_signer calls.        *)

SignerSets == {{}, {"a"}, {"a", "b"}, {"a", "b", "c"}}
Thresholds == 0..3
EmergencyThresholds == {None, Some(0), Some(2)}
EmergencySignerSets == {None, Some({"a", "b"})}

ConstructAny ==
    \E sg \in SignerSets, th \in Thresholds, et \in EmergencyThresholds,
       es \in EmergencySignerSets :
        Construct(sg, th, et, es)

\* a is a signer of every treasury that has signers, c of one of them
Authorizers == {"a", "c"}

AddSigner ==
    \E new_signer \in Ids, authorizer \in Authorizers : add_signer(new_signer, authorizer)

RemoveSigner ==
    \E signer_to_remove \in Ids, authorizer \in Authorizers :
        remove_signer(signer_to_remove, authorizer)

NextSigners ==
    \/ ConstructAny
    \/ AddSigner
    \/ RemoveSigner

SpecSigners == Init /\ [][NextSigners]_vars

----------------------------------------------------------------------------
(* Proposals under a changing signer set: a treasury of a and b, proposals *)
(* created and signed while signers are added and removed.                 *)

Creators == {"a", "c"}

CreateByAnyone ==
    \E creator \in Creators : create_proposal(creator, OneTransfer, "operations", 1)

NextMembership ==
    \/ ConstructCore
    \/ CreateByAnyone
    \/ SignProposal
    \/ AddSigner
    \/ RemoveSigner

SpecMembership == Init /\ [][NextMembership]_vars

----------------------------------------------------------------------------
(* The emergency freeze: a treasury of a and b whose emergency signers are *)
(* its signers, with the default emergency threshold (2) or with 1.        *)

EmergencyQuorums == {None, Some(1)}

ConstructWithQuorum ==
    \E et \in EmergencyQuorums : Construct(CoreSigners, 1, et, None)

TriggerFreeze ==
    \E initiator \in Ids : trigger_emergency_freeze(initiator, "drill", 0)

SignEmergency ==
    \E action_id \in DOMAIN actions, signer \in Ids :
        sign_emergency_action(action_id, signer, "sig", 0)

\* Anyone may call execute_emergency_action: a signer and an outsider
Executors == {"a", "c"}

ExecuteEmergency ==
    \E action_id \in DOMAIN actions, executor \in Executors :
        execute_emergency_action(action_id, executor, 0)

Unfreeze ==
    \E signer \in Ids : unfreeze_treasury(signer, "over", 0)

\* b leaves the signers, and with them the emergency signers
RemoveB ==
    remove_signer("b", "a")

NextEmergency ==
    \/ ConstructWithQuorum
    \/ TriggerFreeze
    \/ SignEmergency
    \/ ExecuteEmergency
    \/ Unfreeze
    \/ RemoveB
    \/ CreateByAnyone

SpecEmergency == Init /\ [][NextEmergency]_vars

\* The emergency calls alone, followed one audit entry further: a freeze
\* that two signers approved is executed and then lifted
NextUnfreeze ==
    \/ ConstructWithQuorum
    \/ TriggerFreeze
    \/ SignEmergency
    \/ ExecuteEmergency
    \/ Unfreeze
    \/ RemoveB

SpecUnfreeze == InitLong /\ [][NextUnfreeze]_vars

----------------------------------------------------------------------------
(* Amount thresholds: a treasury of a, b and c with threshold 1 and        *)
(* AmountThresholdPolicy instances.                                        *)

\* AmountThresholdPolicy(policy_id, enabled) after add_threshold_range calls
\* (thresholds is kept sorted by min_amount)
AmountThresholdPolicy(policy_id, enabled, thresholds) ==
    [type |-> "amount_threshold", policy_id |-> policy_id, enabled |-> enabled,
     thresholds |-> thresholds]

Trio == {"a", "b", "c"}

ConstructTrio ==
    Construct(Trio, 1, None, None)

\* [0,1000) -> 2 and [1000,10000) -> 3, enabled; [0,10000) -> 3, disabled
TieredThresholds ==
    AmountThresholdPolicy("tiers", TRUE, << <<0, 1000, 2>>, <<1000, 10000, 3>> >>)
DisabledThresholds ==
    AmountThresholdPolicy("off", FALSE, << <<0, 10000, 3>> >>)
ThresholdPolicies == {TieredThresholds, DisabledThresholds}

\* Policies are registered while the treasury is set up, before its first
\* logged operation
AddThresholdPolicy ==
    /\ audit_logs = << >>
    /\ \E policy \in ThresholdPolicies : add_policy(policy)

\* An amount of 0, one inside a range, one on a range boundary after a
\* smaller one, and one that no range holds
ThresholdTxLists == { <<Transfer(0, "SUI")>>,
                      <<Transfer(500, "SUI")>>,
                      <<Transfer(1000, "SUI"), Transfer(500, "SUI")>>,
                      <<Transfer(50000, "SUI")>> }

CreateTiered ==
    \E txs \in ThresholdTxLists : create_proposal("a", txs, "operations", 0)

SignTiered ==
    \E p \in DOMAIN proposals, s \in Trio : sign_proposal(p, s, "sig", 0)

ExecuteTiered ==
    \E p \in DOMAIN proposals : execute_proposal(p, "a", 0)

NextThreshold ==
    \/ ConstructTrio
    \/ AddThresholdPolicy
    \/ CreateTiered
    \/ SignTiered
    \/ ExecuteTiered

SpecThreshold == Init /\ [][NextThreshold]_vars

----------------------------------------------------------------------------
(* Time locks: a treasury of a and b with threshold 1 and TimeLockPolicy   *)
(* instances.                                                              *)

\* base Operations 3600 with factor 1000; base Marketing 7200 with factor
\* 5000; a disabled policy with a base no enabled one reaches
OperationsBase == [c \in {"operations"} |-> 3600]
MarketingBase == [c \in {"marketing"} |-> 7200]
AnyBase == [c \in {"operations", "marketing"} |-> 86400]
OperationsLock == TimeLockPolicy("ops", 1000, OperationsBase)
MarketingLock == TimeLockPolicy("mkt", 5000, MarketingBase)
DisabledLock == [TimeLockPolicy("off", 1000, AnyBase) EXCEPT !.enabled = FALSE]
TimeLockPolicies == {OperationsLock, MarketingLock, DisabledLock}

AddTimeLockPolicy ==
    /\ audit_logs = << >>
    /\ \E policy \in TimeLockPolicies : add_policy(policy)

\* The larger amount first in Operations and in Marketing, and a small
\* amount alone in Marketing
LockedTransfers == <<Transfer(5000, "SUI"), Transfer(500, "SUI")>>
SmallTransfer == <<Transfer(500, "SUI")>>
LockedProposals == { [transactions |-> LockedTransfers, category |-> "operations"],
                     [transactions |-> LockedTransfers, category |-> "marketing"],
                     [transactions |-> SmallTransfer, category |-> "marketing"] }

CreateLocked ==
    \E p \in LockedProposals : create_proposal("a", p.transactions, p.category, 1)

LockedSigners == {"a"}

SignLocked ==
    \E p \in DOMAIN proposals, s \in LockedSigners : sign_proposal(p, s, "sig", 1)

DepositLocked ==
    deposit("SUI", 5500, "a")

\* Seconds from the end of the time lock at which execution is tried
ExecuteOffsets == {-1, 0}

ExecuteLocked ==
    \E p \in DOMAIN proposals, d \in ExecuteOffsets :
        execute_proposal(p, "a",
                         proposals[p].created_at + proposals[p].time_lock_duration + d)

NextTimeLock ==
    \/ ConstructCore
    \/ AddTimeLockPolicy
    \/ DepositLocked
    \/ CreateLocked
    \/ SignLocked
    \/ ExecuteLocked

SpecTimeLock == Init /\ [][NextTimeLock]_vars

----------------------------------------------------------------------------
(* Deposits: two coin types, amounts a deposit refuses and accepts, a      *)
(* signer and an outsider as depositor.                                    *)

Coins == {"SUI", "USDC"}
AnyAmounts == {-1, 0, 1, 2}
Depositors == {"a", "c"}

DepositAny ==
    \E coin_type \in Coins, amount \in AnyAmounts, depositor \in Depositors :
        deposit(coin_type, amount, depositor)

NextDeposits ==
    \/ ConstructCore
    \/ DepositAny

SpecDeposits == Init /\ [][NextDeposits]_vars

----------------------------------------------------------------------------
(* Execution after the signer set has changed: a treasury of a and b with  *)
(* threshold 1 is funded, a proposal is created and signed, b leaves or c  *)
(* joins, and the proposal is executed. Five audit entries lead there.     *)

AddC ==
    add_signer("c", "a")

NextUnanimity ==
    \/ ConstructCore
    \/ Deposit
    \/ CreateByAnyone
    \/ SignProposal
    \/ AddC
    \/ RemoveB
    \/ ExecuteProposal

SpecUnanimity == InitLong /\ [][NextUnanimity]_vars

----------------------------------------------------------------------------
(* A whitelist: recipient r1, the payee of every transfer, is approved,    *)
(* given a temporary entry expiring at time 10, removed or blacklisted;    *)
(* proposals are created and executed one second before the expiry (the    *)
(* later of the two times) and at the expiry.                              *)

ExpiryTimes == {9, 10}
Expiry == SetMax(ExpiryTimes)
Recipients == {"r1", "r2"}
Whitelist == WhitelistPolicy("whitelist", TRUE)

AddWhitelist ==
    /\ policies = << >>
    /\ add_policy(Whitelist)

AddRecipient ==
    \E i \in DOMAIN policies, r \in Recipients : add_recipient(i, r)

AddTemporaryRecipient ==
    \E i \in DOMAIN policies, r \in Recipients : add_temporary_recipient(i, r, Expiry)

RemoveRecipient ==
    \E i \in DOMAIN policies, r \in Recipients : remove_recipient(i, r)

BlacklistRecipient ==
    \E i \in DOMAIN policies, r \in Recipients : blacklist_recipient(i, r)

CreateAround ==
    \E t \in ExpiryTimes : create_proposal("a", OneTransfer, "operations", t)

ExecuteAround ==
    \E p \in DOMAIN proposals, t \in ExpiryTimes : execute_proposal(p, "a", t)

NextWhitelist ==
    \/ ConstructCore
    \/ AddWhitelist
    \/ AddRecipient
    \/ AddTemporaryRecipient
    \/ RemoveRecipient
    \/ BlacklistRecipient
    \/ DepositLocked
    \/ CreateAround
    \/ SignLocked
    \/ ExecuteAround

SpecWhitelist == Init /\ [][NextWhitelist]_vars

----------------------------------------------------------------------------
(* Spending limits: one daily SpendingLimitPolicy, with a global limit of  *)
(* 2 or of 0, a per-transaction maximum of 0 or an Operations limit of 0;  *)
(* at most one earlier spending record of 1, dated the last second of the  *)
(* day before or the first second of the day; proposals of one transfer of *)
(* 2 and of two transfers of 2, created and executed on that first second. *)

NoLimits == << >>
OperationsZero == [c \in {"operations"} |-> 0]
GlobalTwo == SpendingLimitPolicy("limit", "daily", NoLimits, Some(2), None)
GlobalZero == SpendingLimitPolicy("limit", "daily", NoLimits, Some(0), None)
MaxZero == SpendingLimitPolicy("limit", "daily", NoLimits, None, Some(0))
CategoryZero == SpendingLimitPolicy("limit", "daily", OperationsZero, None, None)
SpendingPolicies == {GlobalTwo, GlobalZero, MaxZero, CategoryZero}

AddSpendingPolicy ==
    /\ policies = << >>
    /\ \E policy \in SpendingPolicies : add_policy(policy)

DayStart == SECONDS_PER_DAY
RecordTimes == {DayStart - 1, DayStart}

AddSpendingRecord ==
    \E i \in DOMAIN policies, t \in RecordTimes :
        /\ policies[i].type = "spending_limit"
        /\ policies[i].spending_history = << >>
        /\ add_spending_record(i, SpendingRecord(1, t, "operations", 0, "h"))

TwoTransfers == <<Transfer(2, "SUI"), Transfer(2, "SUI")>>
SpendingTxLists == {OneTransfer, TwoTransfers}

CreateSpending ==
    \E txs \in SpendingTxLists : create_proposal("a", txs, "operations", DayStart)

SignSpending ==
    \E p \in DOMAIN proposals, s \in LockedSigners : sign_proposal(p, s, "sig", DayStart)

ExecuteSpending ==
    \E p \in DOMAIN proposals : execute_proposal(p, "a", DayStart)

NextSpending ==
    \/ ConstructCore
    \/ AddSpendingPolicy
    \/ AddSpendingRecord
    \/ DepositLocked
    \/ CreateSpending
    \/ SignSpending
    \/ ExecuteSpending

SpecSpending == Init /\ [][NextSpending]_vars

----------------------------------------------------------------------------
(* Required signers: an ApprovalPolicy that requires b's signature on      *)
(* Operations proposals, registered before or after proposals exist.       *)

RequiresB == [c \in {"operations"} |-> {"b"}]
NoVeto == {}
RequiredSignerPolicy == ApprovalPolicy("approval", RequiresB, NoVeto)

AddRequiredSigner ==
    add_policy(RequiredSignerPolicy)

NextApproval ==
    \/ ConstructCore
    \/ AddRequiredSigner
    \/ Deposit
    \/ CreateByAnyone
    \/ SignProposal
    \/ ExecuteProposal

SpecApproval == Init /\ [][NextApproval]_vars

----------------------------------------------------------------------------
(* The emergency cooldown: a treasury of a and b whose freeze needs one    *)
(* signature; freezes are triggered at time 0, one second before the       *)
(* cooldown has passed since then, and when it has passed.                 *)

ConstructSoloQuorum ==
    Construct(CoreSigners, 1, Some(1), None)

TriggerTimes == {0, EmergencyCooldown - 1, EmergencyCooldown}

TriggerAround ==
    \E initiator \in Executors, t \in TriggerTimes :
        trigger_emergency_freeze(initiator, "drill", t)

NextCooldown ==
    \/ ConstructSoloQuorum
    \/ TriggerAround
    \/ SignEmergency
    \/ ExecuteEmergency
    \/ Unfreeze

SpecCooldown == Init /\ [][NextCooldown]_vars

----------------------------------------------------------------------------
(* Cancelling: proposals of a treasury of a and b are signed and cancelled *)
(* by a, b and the outsider c, while b may leave the signers and c join.   *)

NextCancel ==
    \/ ConstructCore
    \/ CreateByAnyone
    \/ SignProposal
    \/ AddC
    \/ RemoveB
    \/ CancelProposal

SpecCancel == Init /\ [][NextCancel]_vars

----------------------------------------------------------------------------
(* Approval at execution: an ApprovalPolicy that requires b on Operations, *)
(* one that bars b's signature, or one that requires a and bars b, is      *)
(* registered while proposals are created, signed and executed.            *)

RequiresA == [c \in {"operations"} |-> {"a"}]
VetoB == {"b"}
RequiresAVetoB == ApprovalPolicy("approval", RequiresA, VetoB)
ApprovalPolicies == {RequiredSignerPolicy, VetoPolicy, RequiresAVetoB}

AddApprovalPolicy ==
    \E policy \in ApprovalPolicies : add_policy(policy)

NextVeto ==
    \/ ConstructCore
    \/ AddApprovalPolicy
    \/ Deposit
    \/ CreateByAnyone
    \/ SignProposal
    \/ ExecuteProposal

SpecVeto == Init /\ [][NextVeto]_vars

----------------------------------------------------------------------------
(* Failing executions: proposals of one transfer of 2, of two transfers of *)
(* 2, of a transfer of 0 and of a transfer of -1 are executed before and   *)
(* after a deposit of 2, with and without b's veto.                        *)

ZeroTransfer == <<Transfer(0, "SUI")>>
NegativeTransfer == <<Transfer(-1, "SUI")>>
FailingTxLists == {OneTransfer, TwoTransfers, ZeroTransfer, NegativeTransfer}

CreateFailing ==
    \E txs \in FailingTxLists : create_proposal("a", txs, "operations", 0)

Endorsers == {"a", "b"}

SignFailing ==
    \E p \in DOMAIN proposals, s \in Endorsers : sign_proposal(p, s, "sig", 0)

ExecuteFailing ==
    \E p \in DOMAIN proposals : execute_proposal(p, "a", 0)

NextFailure ==
    \/ ConstructCore
    \/ AddPolicy
    \/ Deposit
    \/ CreateFailing
    \/ SignFailing
    \/ ExecuteFailing

SpecFailure == Init /\ [][NextFailure]_vars

----------------------------------------------------------------------------
(* Every audited operation at once, each with a caller it accepts and one  *)
(* it refuses: a treasury of a and b with threshold 1 whose freeze needs   *)
(* one signature.                                                          *)

Callers == {"a", "c"}

DepositAudited ==
    \E amount \in DepositAmounts : deposit("SUI", amount, "a")

AddSignerAudited ==
    \E authorizer \in Callers : add_signer("c", authorizer)

RemoveSignerAudited ==
    \E authorizer \in Callers : remove_signer("b", authorizer)

SignAudited ==
    \E p \in DOMAIN proposals, s \in Callers : sign_proposal(p, s, "sig", 1)

ExecuteAudited ==
    \E p \in DOMAIN proposals : execute_proposal(p, "a", 1)

CancelAudited ==
    \E p \in DOMAIN proposals, c \in Callers : cancel_proposal(p, c, 1)

TriggerAudited ==
    \E initiator \in Callers : trigger_emergency_freeze(initiator, "drill", 0)

SignEmergencyAudited ==
    \E action_id \in DOMAIN actions, signer \in Callers :
        sign_emergency_action(action_id, signer, "sig", 0)

ExecuteEmergencyAudited ==
    \E action_id \in DOMAIN actions : execute_emergency_action(action_id, "a", 0)

UnfreezeAudited ==
    \E signer \in Callers : unfreeze_treasury(signer, "over", 0)

NextAudit ==
    \/ ConstructSoloQuorum
    \/ DepositAudited
    \/ AddSignerAudited
    \/ RemoveSignerAudited
    \/ CreateByAnyone
    \/ SignAudited
    \/ ExecuteAudited
    \/ CancelAudited
    \/ TriggerAudited
    \/ SignEmergencyAudited
    \/ ExecuteEmergencyAudited
    \/ UnfreezeAudited

SpecAudit == Init /\ [][NextAudit]_vars

----------------------------------------------------------------------------
(* The two signer sets: a treasury of a and b constructed without emergency *)
(* signers or with a and c as emergency signers; c is added and b removed   *)
(* through the treasury, emergency signers are added and removed through    *)
(* the module.                                                              *)

QuorumSets == {None, Some({"a", "c"})}

ConstructQuorumSets ==
    \E es \in QuorumSets : Construct(CoreSigners, 1, Some(1), es)

AddEmergencySigner ==
    \E signer \in Ids : add_emergency_signer(signer)

RemoveEmergencySigner ==
    \E signer \in Ids : remove_emergency_signer(signer)

NextQuorumSets ==
    \/ ConstructQuorumSets
    \/ AddC
    \/ RemoveB
    \/ AddEmergencySigner
    \/ RemoveEmergencySigner

SpecQuorumSets == Init /\ [][NextQuorumSets]_vars

----------------------------------------------------------------------------
(* Two coins: deposits of SUI and of USDC that are refused and accepted,    *)
(* proposals of one SUI transfer, of two, and of a SUI transfer followed by *)
(* a USDC transfer, signed and executed at once.                            *)

DepositCoins ==
    \E coin_type \in Coins, amount \in DepositAmounts : deposit(coin_type, amount, "a")

MixedTransfers == <<Transfer(1, "SUI"), Transfer(2, "USDC")>>
CoinTxLists == {OneTransfer, TwoTransfers, MixedTransfers}

CreateCoins ==
    \E txs \in CoinTxLists : create_proposal("a", txs, "operations", 0)

SignCoins ==
    \E p \in DOMAIN proposals : sign_proposal(p, "a", "sig", 0)

NextCoins ==
    \/ ConstructCore
    \/ DepositCoins
    \/ CreateCoins
    \/ SignCoins
    \/ ExecuteFailing

SpecCoins == InitLong /\ [][NextCoins]_vars

----------------------------------------------------------------------------
(* Two freezes: a treasury of a and b whose freeze needs one signature; a   *)
(* triggers freeze actions at time 0 and signs them, and they are executed  *)
(* at time 0 and one second later, with unfreezes in between. Six audit     *)
(* entries trigger, sign and execute two actions.                           *)

TriggerAtZero ==
    trigger_emergency_freeze("a", "drill", 0)

SignSolo ==
    \E action_id \in DOMAIN actions : sign_emergency_action(action_id, "a", "sig", 0)

FreezeTimes == {0, 1}

ExecuteAt ==
    \E action_id \in DOMAIN actions, t \in FreezeTimes :
        execute_emergency_action(action_id, "a", t)

UnfreezeByA ==
    unfreeze_treasury("a", "over", 0)

NextFreezePair ==
    \/ ConstructSoloQuorum
    \/ TriggerAtZero
    \/ SignSolo
    \/ ExecuteAt
    \/ UnfreezeByA

SpecFreezePair == InitLonger /\ [][NextFreezePair]_vars

----------------------------------------------------------------------------
(* Thresholds against the signer set: a treasury of a and b with threshold  *)
(* 1 and the AmountThresholdPolicy instances above, whose tiers ask for up  *)
(* to three signatures; proposals are signed by a and b and executed.       *)

NextSatisfiable ==
    \/ ConstructCore
    \/ AddThresholdPolicy
    \/ CreateTiered
    \/ SignFailing
    \/ ExecuteFailing

SpecSatisfiable == Init /\ [][NextSatisfiable]_vars

----------------------------------------------------------------------------
(* Properties *)

Terminal == {EXECUTED, CANCELLED, FAILED}

\* The call that led to the state was op and ended with result
Did(op, result) == last.op = op /\ last.result = result

\* C1: after any sequence of deposit, create_proposal, sign_proposal,
\* execute_proposal (successful or failing) and cancel_proposal calls the
\* balance of every coin type is >= 0.
C1_BalancesNonNegative ==
    \A c \in DOMAIN balances : balances[c] >= 0

\* An execution has failed on an insufficient balance after debiting the
\* balance down to 0.
C1_Witness ==
    /\ Did("execute_proposal", "ValueError")
    /\ proposals[last.id].status = FAILED
    /\ "SUI" \in DOMAIN balances
    /\ balances["SUI"] = 0

\* C2 (as claimed): an execute_proposal call that fails leaves every balance
\* as it was before the call.
C2_FailedExecutionRestoresBalances ==
    [][(last'.op = "execute_proposal" /\ last'.result # "ok") => balances' = balances]_vars

\* C3 (as claimed): every SpendingRecord carries the proposal_id of a
\* proposal whose status is Executed.
C3_RecordsOnlyForExecuted ==
    \A k \in 1..Len(spending_records) :
        /\ spending_records[k].proposal_id \in DOMAIN proposals
        /\ proposals[spending_records[k].proposal_id].status = EXECUTED

OpenStatuses == {PENDING, TIME_LOCKED}
ProposalCalls == {"sign_proposal", "execute_proposal"}
Refusals == {"ValueError", "PermissionError"}

\* The three preconditions of execute_proposal, as the specification lists them
PreconditionsHold(proposal, current_time) ==
    /\ current_time >= proposal.created_at + proposal.time_lock_duration
    /\ Cardinality(DOMAIN proposal.signatures) >= proposal.threshold_required
    /\ proposal.status \in OpenStatuses

\* C4: execute_proposal called with a precondition unmet (time lock not
\* elapsed, too few signatures, or status not Pending/TimeLocked) fails and
\* leaves proposals (status, signatures), balances, spending records and
\* audit log unchanged; a proposal becomes Executed, and a balance is
\* debited, only by an execute_proposal call made while all three held.
C4_ExecuteNeedsPreconditions ==
    [][/\ (/\ last'.op = "execute_proposal"
           /\ last'.id \in DOMAIN proposals
           /\ ~PreconditionsHold(proposals[last'.id], last'.time))
          => /\ last'.result = "ValueError"
             /\ UNCHANGED <<proposals, balances, spending_records, audit_logs>>
       /\ \A p \in DOMAIN proposals :
             (proposals[p].status # EXECUTED /\ proposals'[p].status = EXECUTED)
             => /\ last'.op = "execute_proposal"
                /\ last'.id = p
                /\ PreconditionsHold(proposals[p], last'.time)
       /\ (\E c \in DOMAIN balances : balances'[c] < balances[c])
          => /\ last'.op = "execute_proposal"
             /\ last'.id \in DOMAIN proposals
             /\ PreconditionsHold(proposals[last'.id], last'.time)
      ]_vars

\* An execute_proposal call has been refused on a TimeLocked proposal that
\* holds enough signatures, its time lock not yet elapsed.
C4_Witness ==
    /\ Did("execute_proposal", "ValueError")
    /\ proposals[last.id].status = TIME_LOCKED
    /\ Cardinality(DOMAIN proposals[last.id].signatures)
         >= proposals[last.id].threshold_required
    /\ last.time < proposals[last.id].created_at + proposals[last.id].time_lock_duration

\* C5: on a proposal whose status is Executed, Cancelled or Failed every
\* sign_proposal and execute_proposal call fails, adding no signature,
\* debiting no balance and appending no spending record.
C5_TerminalRefusesSignAndExecute ==
    [][(/\ last'.op \in ProposalCalls
        /\ last'.id \in DOMAIN proposals
        /\ proposals[last'.id].status \in Terminal)
       => /\ last'.result \in Refusals
          /\ UNCHANGED <<proposals, balances, spending_records>>
      ]_vars

\* A second execute_proposal call on an Executed proposal has been refused.
C5_Witness ==
    /\ Did("execute_proposal", "ValueError")
    /\ proposals[last.id].status = EXECUTED
    /\ PreconditionsHold([proposals[last.id] EXCEPT !.status = TIME_LOCKED], last.time)

\* C6 (as claimed): cancel_proposal on a proposal whose status is Executed,
\* Cancelled or Failed fails and leaves the status unchanged.
C6_CancelRefusedOnTerminal ==
    [][(/\ last'.op = "cancel_proposal"
        /\ last'.id \in DOMAIN proposals
        /\ proposals[last'.id].status \in Terminal)
       => /\ last'.result # "ok"
          /\ proposals'[last'.id].status = proposals[last'.id].status
      ]_vars

\* C7: a proposal whose status is Executed, Cancelled or Failed stays in
\* one of these three statuses in every later state.
C7_TerminalNeverReopened ==
    [][\A p \in DOMAIN proposals :
          proposals[p].status \in Terminal
          => p \in DOMAIN proposals' /\ proposals'[p].status \in Terminal
      ]_vars

\* A proposal whose execution had failed has been cancelled.
C7_Witness ==
    /\ Did("cancel_proposal", "ok")
    /\ proposals[last.id].status = CANCELLED
    /\ \E k \in 1..Len(audit_logs) :
          /\ audit_logs[k].action = "execute_proposal_failed"
          /\ audit_logs[k].proposal_id = Some(last.id)

\* C8: config.threshold <= |config.signers| in every state reached from a
\* constructed treasury by add_signer and remove_signer calls; a
\* construction that was rejected has built nothing, and a remove_signer
\* call is rejected with ValueError only when |signers| <= threshold.
C8_ThresholdWithinSigners ==
    /\ constructed => threshold <= Cardinality(signers)
    /\ Did("__init__", "ValueError") => ~constructed
    /\ Did("remove_signer", "ValueError") => Cardinality(signers) <= threshold

\* remove_signer has been accepted and has brought |signers| down to the
\* threshold.
C8_Witness ==
    /\ Did("remove_signer", "ok")
    /\ threshold >= 1
    /\ Cardinality(signers) = threshold
    /\ \E k \in 1..Len(audit_logs) :
          /\ audit_logs[k].action = "remove_signer"
          /\ audit_logs[k].details.removed_signer \notin signers

\* C9 (as claimed): config.threshold >= 1 after construction and after every
\* public operation.
C9_ThresholdAtLeastOne ==
    constructed => threshold >= 1

\* C10 (as claimed): emergency_threshold <= |emergency_signers| after
\* construction and after every public operation, remove_signer included.
C10_EmergencyThresholdWithinSigners ==
    constructed => emergency_threshold <= Cardinality(emergency_signers)

\* C11 (as claimed): for every proposal, |signatures| <= |config.signers|,
\* also after signers that already signed it have been removed.
C11_SignaturesWithinSigners ==
    \A p \in DOMAIN proposals :
        Cardinality(DOMAIN proposals[p].signatures) <= Cardinality(signers)

\* The sign_proposal entries the audit log holds for proposal p
SignEntries(p) ==
    {k \in 1..Len(audit_logs) : /\ audit_logs[k].action = "sign_proposal"
                                /\ audit_logs[k].proposal_id = Some(p)}

\* C12: sign_proposal by a signer who has already signed the proposal fails
\* and leaves the proposal's signatures (keys and stored signatures)
\* unchanged; the signature count of a proposal equals the number of
\* distinct identities whose sign_proposal call on it was accepted.
C12_OneSignaturePerSigner ==
    [][/\ (/\ last'.op = "sign_proposal"
           /\ last'.id \in DOMAIN proposals
           /\ last'.actor \in DOMAIN proposals[last'.id].signatures)
          => /\ last'.result # "ok"
             /\ proposals'[last'.id].signatures = proposals[last'.id].signatures
       /\ \A p \in DOMAIN proposals :
             /\ Cardinality(DOMAIN proposals[p].signatures) = Cardinality(SignEntries(p))
             /\ DOMAIN proposals[p].signatures = {audit_logs[k].actor : k \in SignEntries(p)}
      ]_vars

\* A current signer who had signed the proposal has called sign_proposal on
\* it again and has been refused; the proposal is still open.
C12_Witness ==
    /\ Did("sign_proposal", "ValueError")
    /\ last.actor \in signers
    /\ proposals[last.id].status = TIME_LOCKED
    /\ last.actor \in DOMAIN proposals[last.id].signatures

SignerOnlyCalls == {"create_proposal", "sign_proposal", "add_signer", "remove_signer"}

\* C13: create_proposal, sign_proposal on an existing proposal, add_signer
\* and remove_signer called by an identity that is not in config.signers
\* fail with PermissionError and leave signers, proposals (signatures
\* included), balances and audit log unchanged.
C13_NonSignerRefused ==
    [][(/\ last'.op \in SignerOnlyCalls
        /\ last'.actor \notin signers
        /\ last'.op = "sign_proposal" => last'.id \in DOMAIN proposals)
       => /\ last'.result = "PermissionError"
          /\ UNCHANGED <<signers, proposals, balances, audit_logs>>
      ]_vars

\* A signer who signed a proposal and was then removed has called
\* sign_proposal on it and has been refused as a non-signer.
C13_Witness ==
    /\ Did("sign_proposal", "PermissionError")
    /\ last.actor \notin signers
    /\ last.actor \in DOMAIN proposals[last.id].signatures

\* C14: while frozen is true every create_proposal call by a current signer
\* fails with RuntimeError and adds no proposal; no step taken from a
\* frozen state adds a proposal.
C14_NoProposalWhileFrozen ==
    [][/\ (/\ last'.op = "create_proposal"
           /\ frozen
           /\ last'.actor \in signers)
          => /\ last'.result = "RuntimeError"
             /\ proposals' = proposals
       /\ Len(proposals') > Len(proposals) => ~frozen
      ]_vars

\* A current signer's create_proposal call has been refused on a treasury
\* that an executed freeze action froze.
C14_Witness ==
    /\ Did("create_proposal", "RuntimeError")
    /\ last.actor \in signers
    /\ frozen
    /\ \E id \in DOMAIN actions : actions[id].executed

\* C15: frozen goes from false to true only in an execute_emergency_action
\* step on a freeze action that holds at least emergency_threshold
\* signatures; a signature enters an emergency action only by a
\* sign_emergency_action call of an identity that is then in
\* emergency_signers (one key per identity); execute_emergency_action on
\* an action with fewer signatures fails and leaves frozen and
\* last_emergency_at unchanged.
C15_FreezeNeedsQuorum ==
    [][/\ (~frozen /\ frozen')
          => /\ last'.op = "execute_emergency_action"
             /\ last'.result = "ok"
             /\ last'.id \in DOMAIN actions
             /\ actions[last'.id].action_type = "freeze"
             /\ Cardinality(DOMAIN actions[last'.id].signatures) >= emergency_threshold
       /\ \A id \in DOMAIN actions' :
             \A s \in DOMAIN actions'[id].signatures :
                (id \notin DOMAIN actions \/ s \notin DOMAIN actions[id].signatures)
                => /\ s \in emergency_signers
                   /\ last'.op = "sign_emergency_action"
                   /\ last'.actor = s
                   /\ last'.id = id
       /\ (/\ last'.op = "execute_emergency_action"
           /\ last'.id \in DOMAIN actions
           /\ Cardinality(DOMAIN actions[last'.id].signatures) < emergency_threshold)
          => /\ last'.result = "ValueError"
             /\ UNCHANGED <<frozen, last_emergency_at, actions>>
      ]_vars

\* execute_emergency_action has been refused on a freeze action that holds
\* one signature of the two required, and accepted on none before.
C15_Witness ==
    /\ Did("execute_emergency_action", "ValueError")
    /\ emergency_threshold = 2
    /\ Cardinality(DOMAIN actions[last.id].signatures) = 1
    /\ ~frozen
    /\ last_emergency_at = None

\* The enabled policies of a class among ps, by position
EnabledOfType(ps, type) ==
    {i \in 1..Len(ps) : ps[i].type = type /\ ps[i].enabled}

\* C16 (as claimed): a created proposal's threshold_required is the maximum
\* of config.threshold and, over its transactions, of the threshold each
\* enabled AmountThresholdPolicy assigns to the transaction's amount; while
\* it holds fewer than threshold_required signatures execute_proposal on it
\* is refused.
C16_ThresholdRequiredIsMax ==
    [][/\ (last'.op = "create_proposal" /\ last'.result = "ok")
          => LET created == proposals'[last'.id] IN
             created.threshold_required =
                SetMax({threshold} \cup
                       {policy_required_threshold(policies[i], created.transactions[k].amount) :
                           i \in EnabledOfType(policies, "amount_threshold"),
                           k \in 1..Len(created.transactions)})
       /\ (/\ last'.op = "execute_proposal"
           /\ last'.id \in DOMAIN proposals
           /\ Cardinality(DOMAIN proposals[last'.id].signatures)
                 < proposals[last'.id].threshold_required)
          => /\ last'.result = "ValueError"
             /\ proposals' = proposals
      ]_vars

\* The lock the claim gives a transaction under a TimeLockPolicy:
\* base[category] (3600 without one) + floor(amount / amount_factor) * 3600
ClaimedLock(policy, amount, category) ==
    (IF category \in DOMAIN policy.base_lock_duration
     THEN policy.base_lock_duration[category] ELSE 3600)
    + (amount \div policy.amount_factor) * 3600

\* C17: a proposal created with at least one enabled TimeLockPolicy
\* registered gets as time_lock_duration the maximum, over its transactions
\* and the enabled TimeLockPolicy instances, of base[category] (3600 when
\* the category has no base) + floor(amount / amount_factor) * 3600.
C17_TimeLockIsMaxOverTransactions ==
    [][(/\ last'.op = "create_proposal"
        /\ last'.result = "ok"
        /\ EnabledOfType(policies, "timelock") # {})
       => LET created == proposals'[last'.id] IN
          /\ \E i \in EnabledOfType(policies, "timelock"), k \in 1..Len(created.transactions) :
                created.time_lock_duration =
                    ClaimedLock(policies[i], created.transactions[k].amount, created.category)
          /\ \A i \in EnabledOfType(policies, "timelock"), k \in 1..Len(created.transactions) :
                created.time_lock_duration >=
                    ClaimedLock(policies[i], created.transactions[k].amount, created.category)
      ]_vars

\* With base Operations 3600 and factor 1000 registered (next to a policy
\* that gives less and a disabled one that would give more), an Operations
\* proposal of 5000 followed by 500 has been created with a lock of 21600.
C17_Witness ==
    /\ Did("create_proposal", "ok")
    /\ proposals[last.id].category = "operations"
    /\ proposals[last.id].transactions = LockedTransfers
    /\ proposals[last.id].time_lock_duration = 21600
    /\ Len(policies) = 3

\* C18: on a TimeLocked proposal holding exactly threshold_required
\* signatures, execute_proposal at current_time = created_at +
\* time_lock_duration passes the preconditions (the call gets as far as
\* debiting) and, no policy rejecting and the balance covering the
\* transactions, makes it Executed; the same call one second earlier fails
\* and leaves the proposal as it was, TimeLocked.
C18_TimeLockBoundaryInclusive ==
    [][\A p \in DOMAIN proposals :
          LET proposal == proposals[p]
              unlock == proposal.created_at + proposal.time_lock_duration
              total == SumSeq([k \in 1..Len(proposal.transactions) |->
                                  proposal.transactions[k].amount])
          IN
          (/\ last'.op = "execute_proposal"
           /\ last'.id = p
           /\ proposal.status = TIME_LOCKED
           /\ Cardinality(DOMAIN proposal.signatures) = proposal.threshold_required)
          => /\ last'.time = unlock
                => /\ audit_logs' # audit_logs
                   /\ proposals'[p].status \in {EXECUTED, FAILED}
                   /\ total <= get_balance("SUI") => /\ last'.result = "ok"
                                                      /\ proposals'[p].status = EXECUTED
             /\ last'.time = unlock - 1
                => /\ last'.result = "ValueError"
                   /\ proposals' = proposals
      ]_vars

\* A proposal locked for 21600 seconds and holding exactly the one
\* signature it requires has been executed at created_at + 21600.
C18_Witness ==
    /\ Did("execute_proposal", "ok")
    /\ proposals[last.id].status = EXECUTED
    /\ proposals[last.id].time_lock_duration = 21600
    /\ last.time = proposals[last.id].created_at + 21600
    /\ Cardinality(DOMAIN proposals[last.id].signatures)
          = proposals[last.id].threshold_required

\* C19: deposit(c, a, depositor) with a > 0 succeeds whoever the depositor
\* is, makes the balance of c its previous value (0 for a coin type not yet
\* present) plus a and leaves every other balance unchanged; with a <= 0 it
\* fails and leaves all balances unchanged.
C19_DepositAddsToBalance ==
    [][\A c \in Coins, a \in AnyAmounts, depositor \in Depositors :
          deposit(c, a, depositor)
          => IF a > 0
             THEN /\ last'.result = "ok"
                  /\ DOMAIN balances' = DOMAIN balances \cup {c}
                  /\ balances'[c] = (IF c \in DOMAIN balances THEN balances[c] ELSE 0) + a
                  /\ \A o \in DOMAIN balances \ {c} : balances'[o] = balances[o]
             ELSE /\ last'.result = "ValueError"
                  /\ balances' = balances
      ]_vars

\* An outsider's deposit has been accepted and has brought a coin's balance
\* to 3 in two deposits, next to another coin's balance of 2.
C19_Witness ==
    /\ Did("deposit", "ok")
    /\ last.actor = "c"
    /\ last.actor \notin signers
    /\ DOMAIN balances = Coins
    /\ balances["USDC"] = 3
    /\ balances["SUI"] = 2
    /\ audit_logs[Len(audit_logs)].details.coin_type = "USDC"

\* This step is an accepted remove_signer(x, a) that follows an accepted
\* add_signer(x, a) at once
AddThenRemove ==
    /\ last.op = "add_signer"
    /\ last.result = "ok"
    /\ last'.op = "remove_signer"
    /\ last'.result = "ok"
    /\ last'.actor = last.actor
    /\ audit_logs'[Len(audit_logs')].details.removed_signer
         = audit_logs[Len(audit_logs)].details.new_signer

\* C20 (as claimed): for every identity x and current signer a,
\* add_signer(x, a) followed by an accepted remove_signer(x, a) leaves
\* config.signers as it was before the add_signer call.
C20_AddRemoveRestoresSigners ==
    [][AddThenRemove => signers' = last.signers]_vars

\* C20 (amended): for every identity x that is not a signer and every
\* current signer a, add_signer(x, a) followed by an accepted
\* remove_signer(x, a) leaves config.signers as it was before the
\* add_signer call.
C20_AddRemoveRestoresSigners_amended ==
    [][(AddThenRemove /\ audit_logs[Len(audit_logs)].details.new_signer \notin last.signers)
       => signers' = last.signers]_vars

\* add_signer(x, a) and then remove_signer(x, a) have been accepted, x is
\* no signer and the signers number as many as the threshold asks.
C20_Witness ==
    /\ Did("remove_signer", "ok")
    /\ Len(audit_logs) >= 2
    /\ audit_logs[Len(audit_logs) - 1].action = "add_signer"
    /\ audit_logs[Len(audit_logs) - 1].actor = last.actor
    /\ audit_logs[Len(audit_logs) - 1].details.new_signer
         = audit_logs[Len(audit_logs)].details.removed_signer
    /\ audit_logs[Len(audit_logs)].details.removed_signer \notin signers
    /\ Cardinality(signers) = threshold
    /\ threshold >= 1

\* C21 (as claimed): in a state where config.threshold = |config.signers|,
\* execute_proposal succeeds on a proposal only if every current signer has
\* signed it, whatever add_signer, remove_signer and sign_proposal calls
\* preceded.
C21_UnanimousWhenThresholdIsAll ==
    [][(/\ last'.op = "execute_proposal"
        /\ last'.result = "ok"
        /\ threshold = Cardinality(signers))
       => signers \subseteq DOMAIN proposals[last'.id].signatures
      ]_vars

\* The recipient every transfer of the menus pays
Payee == OneTransfer[1].recipient

\* The recipient's only standing in the whitelist is a temporary entry
TemporaryOnly(policy, recipient) ==
    /\ policy.enabled
    /\ recipient \notin policy.blacklisted_recipients
    /\ recipient \notin policy.approved_recipients
    /\ recipient \in DOMAIN policy.temporary_entries

\* C22: a recipient whose only whitelist entry is a temporary one expiring at
\* E passes validation at time t exactly when t < E, both when a proposal is
\* created and when it is executed: create_proposal by a signer of an
\* unfrozen treasury is accepted before E and raises PolicyViolation from E
\* on, and an executable proposal executed at or after E becomes Failed with
\* a PolicyViolation, which it never meets before E.
C22_TemporaryEntryExpires ==
    [][\A i \in PoliciesOfType("whitelist") :
          TemporaryOnly(policies[i], Payee) =>
             /\ (last'.op = "create_proposal" /\ last'.actor \in signers /\ ~frozen)
                  => /\ last'.result = "ok" <=> last'.time < policies[i].temporary_entries[Payee]
                     /\ last'.result \in {"ok", "PolicyViolation"}
             /\ (/\ last'.op = "execute_proposal"
                 /\ last'.id \in DOMAIN proposals
                 /\ can_execute(proposals[last'.id], last'.time))
                  => IF last'.time < policies[i].temporary_entries[Payee]
                     THEN last'.result # "PolicyViolation"
                     ELSE /\ last'.result = "PolicyViolation"
                          /\ proposals'[last'.id].status = FAILED
      ]_vars

\* A proposal created before the expiry has been executed at the expiry and
\* failed on the whitelist
C22_Witness ==
    /\ last.op = "execute_proposal"
    /\ last.result = "PolicyViolation"
    /\ last.time = Expiry
    /\ proposals[last.id].status = FAILED
    /\ proposals[last.id].created_at < Expiry

\* The rejection rule as claimed: a limit that is configured is enforced,
\* whatever its value
ClaimedRejects(policy, amount, category, current_time) ==
    \/ policy.max_per_transaction # None
       /\ amount > policy.max_per_transaction[1]
    \/ category \in DOMAIN policy.limit_per_category
       /\ get_current_spending(policy, category, current_time) + amount
            > policy.limit_per_category[category]
    \/ policy.global_limit # None
       /\ get_global_spending(policy, current_time) + amount > policy.global_limit[1]

\* C23 (as claimed): an enabled SpendingLimitPolicy rejects a transaction of
\* amount a in category c exactly when a exceeds max_per_transaction, or c
\* has a limit and the window's spending in c plus a exceeds it, or a global
\* limit is set and the window's total spending plus a exceeds it; this for
\* every configured limit value, 0 included. Stated of create_proposal of
\* one transfer by signer a with the policy alone registered.
C23_SpendingLimitRejectsExactly ==
    [][\A i \in PoliciesOfType("spending_limit") :
          (/\ policies[i].enabled
           /\ Len(policies) = 1
           /\ create_proposal("a", OneTransfer, "operations", DayStart))
          => (last'.result = "PolicyViolation"
                <=> ClaimedRejects(policies[i], OneTransfer[1].amount, "operations", DayStart))
      ]_vars

RECURSIVE DebitedInWindow(_, _, _)
\* The amounts execute_proposal debited at times of the period that starts
\* at period_start
DebitedInWindow(records, policy, period_start) ==
    IF records = << >> THEN 0
    ELSE (IF get_period_start(policy, Head(records).timestamp) = period_start
          THEN Head(records).amount ELSE 0)
         + DebitedInWindow(Tail(records), policy, period_start)

\* C26 (as claimed): with an enabled SpendingLimitPolicy whose global limit
\* is L registered from the start, the amounts execute_proposal debits
\* within one period window never total more than L.
C26_GlobalLimitBoundsDebits ==
    \A i \in PoliciesOfType("spending_limit") :
        (policies[i].enabled /\ policies[i].global_limit # None)
        => \A k \in DOMAIN spending_records :
              DebitedInWindow(spending_records, policies[i],
                              get_period_start(policies[i], spending_records[k].timestamp))
                <= policies[i].global_limit[1]

\* The thresholds the enabled AmountThresholdPolicy objects among ps assign
\* to the transactions, none when no policy is consulted
Contributions(ps, transactions) ==
    {policy_required_threshold(ps[i], transactions[k].amount) :
        i \in {j \in EnabledOfType(ps, "amount_threshold") :
                  SetMax({transactions[n].amount : n \in 1..Len(transactions)}) > 0},
        k \in 1..Len(transactions)}

\* C24 (as claimed): PolicyManager.get_required_threshold returns 2 whenever
\* no AmountThresholdPolicy contributes (none registered, all disabled, none
\* consulted) and otherwise the largest threshold contributed over the
\* transactions; create_proposal then requires the larger of config.threshold
\* and that value.
C24_RequiredThresholdDefaultsToTwo ==
    [][(last'.op = "create_proposal" /\ last'.result = "ok")
       => LET created == proposals'[last'.id]
              contributed == Contributions(policies, created.transactions)
          IN
          /\ get_required_threshold(policies, created.transactions)
                = IF contributed = {} THEN DefaultRequiredThreshold ELSE SetMax(contributed)
          /\ created.threshold_required
                = Max(threshold,
                      IF contributed = {} THEN DefaultRequiredThreshold ELSE SetMax(contributed))
      ]_vars

\* The policy with its required-signer table emptied
WithoutRequiredSigners(policy) ==
    IF policy.type = "approval"
    THEN [policy EXCEPT !.required_signers_by_category = << >>]
    ELSE policy

\* C25 (as claimed): create_proposal does not fail because of an
\* ApprovalPolicy's required-signer check: whenever it raises PolicyViolation
\* some registered policy rejects one of the transactions for another reason.
C25_CreationIgnoresRequiredSigners ==
    [][\A creator \in Creators :
          (/\ create_proposal(creator, OneTransfer, "operations", 1)
           /\ last'.result = "PolicyViolation")
          => \E i \in DOMAIN policies, k \in DOMAIN OneTransfer :
                Violates(WithoutRequiredSigners(policies[i]), OneTransfer[k],
                         Context("operations", 1, {}))
      ]_vars

\* C27: unfreeze_treasury succeeds exactly when the caller is an emergency
\* signer and the treasury is frozen, and then the treasury is no longer
\* frozen, one caller sufficing; any other caller gets PermissionError, an
\* emergency signer of a treasury that is not frozen gets ValueError, and a
\* failed call leaves frozen as it was.
C27_UnfreezeBySingleEmergencySigner ==
    [][last'.op = "unfreeze_treasury"
       => /\ last'.result = "ok" <=> (last'.actor \in emergency_signers /\ frozen)
          /\ last'.actor \notin emergency_signers => last'.result = "PermissionError"
          /\ (last'.actor \in emergency_signers /\ ~frozen) => last'.result = "ValueError"
          /\ last'.result = "ok" => ~frozen'
          /\ last'.result # "ok" => /\ frozen' = frozen
                                    /\ audit_logs' = audit_logs
      ]_vars

\* One emergency signer has just lifted a freeze that needed two signatures
C27_Witness ==
    /\ last.op = "unfreeze_treasury"
    /\ last.result = "ok"
    /\ ~frozen
    /\ emergency_threshold = 2
    /\ \E k \in DOMAIN actions :
          actions[k].executed /\ Cardinality(DOMAIN actions[k].signatures) = 2

\* C28: trigger_emergency_freeze called by an emergency signer at time t
\* succeeds, appending a freeze action that is unexecuted and unsigned, when
\* last_emergency_at is null or t - last_emergency_at >= emergency_cooldown;
\* otherwise it raises RuntimeError and creates no action. Only a successful
\* execute_emergency_action changes last_emergency_at.
C28_CooldownBetweenFreezes ==
    [][/\ (last'.op = "trigger_emergency_freeze" /\ last'.actor \in emergency_signers)
          => IF \/ last_emergency_at = None
                \/ last'.time - last_emergency_at[1] >= EmergencyCooldown
             THEN /\ last'.result = "ok"
                  /\ actions' = Append(actions, actions'[Len(actions')])
                  /\ actions'[Len(actions')].action_type = "freeze"
                  /\ actions'[Len(actions')].initiated_at = last'.time
                  /\ ~actions'[Len(actions')].executed
                  /\ DOMAIN actions'[Len(actions')].signatures = {}
             ELSE /\ last'.result = "RuntimeError"
                  /\ actions' = actions
       /\ last_emergency_at' # last_emergency_at
          => /\ last'.op = "execute_emergency_action"
             /\ last'.result = "ok"
             /\ last_emergency_at' = Some(last'.time)
      ]_vars

\* A second freeze has been triggered exactly one cooldown after the first
\* was executed
C28_Witness ==
    /\ last.op = "trigger_emergency_freeze"
    /\ last.result = "ok"
    /\ last_emergency_at # None
    /\ last.time - last_emergency_at[1] = EmergencyCooldown
    /\ Len(actions) = 2

\* C29: cancel_proposal on a proposal that is not terminal succeeds, leaving
\* it Cancelled, exactly when the canceller is its creator or holds a
\* signature on it, whether or not the canceller is still a signer; anyone
\* else, a current signer who has not signed included, gets PermissionError
\* and the proposal is unchanged.
C29_CancelByCreatorOrSignatory ==
    [][(/\ last'.op = "cancel_proposal"
        /\ last'.id \in DOMAIN proposals
        /\ proposals[last'.id].status \notin Terminal)
       => IF \/ last'.actor = proposals[last'.id].creator
             \/ last'.actor \in DOMAIN proposals[last'.id].signatures
          THEN /\ last'.result = "ok"
               /\ proposals'[last'.id].status = CANCELLED
          ELSE /\ last'.result = "PermissionError"
               /\ proposals' = proposals
      ]_vars

\* A signer who signed and was then removed has cancelled a proposal that
\* another signer created
C29_Witness ==
    /\ last.op = "cancel_proposal"
    /\ last.result = "ok"
    /\ last.actor \notin signers
    /\ last.actor # proposals[last.id].creator
    /\ last.actor \in DOMAIN proposals[last.id].signatures
    /\ proposals[last.id].status = CANCELLED

\* The recipients a whitelist holds both as blacklisted and as approved or
\* temporarily approved
Overlap(policy) ==
    policy.blacklisted_recipients
        \cap (policy.approved_recipients \cup DOMAIN policy.temporary_entries)

\* C30: under any sequence of add_recipient, add_temporary_recipient,
\* remove_recipient, blacklist_recipient and validations, no recipient of a
\* WhitelistPolicy is both blacklisted and approved or temporarily approved;
\* add_recipient and add_temporary_recipient of a blacklisted recipient raise
\* ValueError and change nothing; and a blacklisted recipient stays
\* blacklisted and never passes validation again, at creation or execution.
C30_BlacklistIsFinal ==
    [][/\ \A i \in DOMAIN policies' :
             policies'[i].type = "whitelist" => Overlap(policies'[i]) = {}
       /\ \A i \in PoliciesOfType("whitelist") :
             \A r \in policies[i].blacklisted_recipients :
                /\ (add_recipient(i, r) \/ add_temporary_recipient(i, r, Expiry))
                     => (last'.result = "ValueError" /\ policies' = policies)
                /\ r \in policies'[i].blacklisted_recipients
                /\ \A t \in ExpiryTimes : ~is_recipient_approved(policies[i], r, t)
                /\ (/\ r = Payee
                    /\ policies[i].enabled
                    /\ last'.op = "create_proposal"
                    /\ last'.actor \in signers
                    /\ ~frozen)
                     => last'.result = "PolicyViolation"
                /\ (/\ r = Payee
                    /\ policies[i].enabled
                    /\ last'.op = "execute_proposal"
                    /\ last'.id \in DOMAIN proposals
                    /\ can_execute(proposals[last'.id], last'.time))
                     => /\ last'.result = "PolicyViolation"
                        /\ proposals'[last'.id].status = FAILED
      ]_vars

\* The payee passed validation when a proposal paying it was created, was
\* blacklisted afterwards, and the execution of that proposal was rejected
C30_Witness ==
    /\ last.op = "execute_proposal"
    /\ last.result = "PolicyViolation"
    /\ proposals[last.id].status = FAILED
    /\ \E i \in PoliciesOfType("whitelist") :
          /\ Payee \in policies[i].blacklisted_recipients
          /\ Overlap(policies[i]) = {}

\* C31: with an enabled ApprovalPolicy registered, execute_proposal succeeds
\* only if every required signer of the proposal's category has signed it and
\* no veto signer has; executing a proposal that carries a veto signer's
\* signature never makes it Executed, and when the execute preconditions
\* hold it raises PolicyViolation, leaves the proposal Failed and debits and
\* records nothing.
C31_ApprovalEnforcedAtExecution ==
    [][\A i \in EnabledOfType(policies, "approval") :
          (last'.op = "execute_proposal" /\ last'.id \in DOMAIN proposals)
          => LET proposal == proposals[last'.id]
                 signed == DOMAIN proposal.signatures
                 required == IF proposal.category \in DOMAIN policies[i].required_signers_by_category
                             THEN policies[i].required_signers_by_category[proposal.category]
                             ELSE {}
             IN
             /\ last'.result = "ok"
                  => /\ required \subseteq signed
                     /\ policies[i].veto_signers \cap signed = {}
             /\ policies[i].veto_signers \cap signed # {}
                  => /\ proposals'[last'.id].status = EXECUTED => proposal.status = EXECUTED
                     /\ can_execute(proposal, last'.time)
                          => /\ last'.result = "PolicyViolation"
                             /\ proposals'[last'.id].status = FAILED
                             /\ balances' = balances
                             /\ spending_records' = spending_records
      ]_vars

\* A funded proposal that the veto signer b signed has been executed and
\* has failed on the policy, the balance untouched
C31_Witness ==
    /\ last.op = "execute_proposal"
    /\ last.result = "PolicyViolation"
    /\ proposals[last.id].status = FAILED
    /\ \E i \in EnabledOfType(policies, "approval") :
          policies[i].veto_signers \cap DOMAIN proposals[last.id].signatures # {}
    /\ "SUI" \in DOMAIN balances
    /\ balances["SUI"] >= SumSeq([k \in 1..Len(proposals[last.id].transactions) |->
                                     proposals[last.id].transactions[k].amount])
    /\ balances["SUI"] > 0
    /\ spending_records = << >>

RECURSIVE SumOfCoin(_, _, _)
\* The amounts of the first k transactions that are in coin_type
SumOfCoin(transactions, k, coin_type) ==
    IF k = 0 THEN 0
    ELSE (IF transactions[k].coin_type = coin_type THEN transactions[k].amount ELSE 0)
         + SumOfCoin(transactions, k - 1, coin_type)

\* Some transaction of the proposal fails when executed at current_time: on
\* a policy, for want of a balance entry or of funds at its turn, or because
\* its amount is not positive
SomeTransactionFails(proposal, current_time) ==
    \E k \in DOMAIN proposal.transactions :
        LET transaction == proposal.transactions[k] IN
        \/ \E i \in DOMAIN policies :
              Violates(policies[i], transaction,
                       Context(proposal.category, current_time, DOMAIN proposal.signatures))
        \/ transaction.coin_type \notin DOMAIN balances
        \/ transaction.amount <= 0
        \/ SumOfCoin(proposal.transactions, k, transaction.coin_type)
             > balances[transaction.coin_type]

\* The errors execute_proposal's except branch raises again
ExecutionErrors == {"PolicyViolation", "ValueError"}

\* C32: when execute_proposal passes its preconditions and a transaction then
\* fails policy re-validation, has no balance entry for its coin, lacks funds
\* or has a non-positive amount, the proposal becomes Failed, the error
\* reaches the caller, exactly one execute_proposal_failed entry is appended
\* and executed_at stays unset; a Failed proposal is never executed
\* afterwards: every later execute_proposal on it is refused and changes
\* nothing, whatever has been deposited since.
C32_FailedExecutionIsFinal ==
    [][/\ (/\ last'.op = "execute_proposal"
           /\ last'.id \in DOMAIN proposals
           /\ can_execute(proposals[last'.id], last'.time)
           /\ SomeTransactionFails(proposals[last'.id], last'.time))
          => /\ proposals'[last'.id].status = FAILED
             /\ last'.result \in ExecutionErrors
             /\ Len(audit_logs') = Len(audit_logs) + 1
             /\ SubSeq(audit_logs', 1, Len(audit_logs)) = audit_logs
             /\ audit_logs'[Len(audit_logs')].action = "execute_proposal_failed"
             /\ audit_logs'[Len(audit_logs')].proposal_id = Some(last'.id)
             /\ proposals'[last'.id].executed_at = None
       /\ \A p \in DOMAIN proposals :
             proposals[p].status = FAILED
             => /\ proposals'[p].status # EXECUTED
                /\ proposals'[p].executed_at = None
                /\ (last'.op = "execute_proposal" /\ last'.id = p)
                     => /\ last'.result = "ValueError"
                        /\ UNCHANGED <<proposals, balances, spending_records, audit_logs>>
      ]_vars

\* A proposal failed for want of a balance entry, the deposit that covers
\* it came afterwards, and a new execute_proposal on it has been refused
C32_Witness ==
    /\ Did("execute_proposal", "ValueError")
    /\ proposals[last.id].status = FAILED
    /\ policies = << >>
    /\ \A k \in DOMAIN proposals[last.id].transactions :
          proposals[last.id].transactions[k].amount > 0
    /\ "SUI" \in DOMAIN balances
    /\ balances["SUI"] >= SumSeq([k \in 1..Len(proposals[last.id].transactions) |->
                                     proposals[last.id].transactions[k].amount])
    /\ PreconditionsHold([proposals[last.id] EXCEPT !.status = TIME_LOCKED], last.time)
    /\ audit_logs[Len(audit_logs)].action = "deposit"

\* The statuses a stored proposal is ever found in
ReachedStatuses == {TIME_LOCKED, EXECUTED, CANCELLED, FAILED}

\* C33: every proposal create_proposal stores starts TimeLocked with an empty
\* signature map (the creator has not signed); in every reachable state each
\* stored proposal is TimeLocked, Executed, Cancelled or Failed, never
\* Pending or ReadyToExecute; and sign_proposal changes no status.
C33_ProposalsStartTimeLocked ==
    [][/\ \A p \in DOMAIN proposals' : proposals'[p].status \in ReachedStatuses
       /\ (last'.op = "create_proposal" /\ last'.result = "ok")
          => /\ DOMAIN proposals' = DOMAIN proposals \cup {last'.id}
             /\ last'.id \notin DOMAIN proposals
             /\ proposals'[last'.id].status = TIME_LOCKED
             /\ DOMAIN proposals'[last'.id].signatures = {}
       /\ last'.op = "sign_proposal"
          => \A p \in DOMAIN proposals :
                p \in DOMAIN proposals' /\ proposals'[p].status = proposals[p].status
      ]_vars

\* A signature has completed a proposal's threshold and the proposal is
\* still TimeLocked, its creator not among the signers of it
C33_Witness ==
    /\ Did("sign_proposal", "ok")
    /\ proposals[last.id].status = TIME_LOCKED
    /\ Cardinality(DOMAIN proposals[last.id].signatures)
         = proposals[last.id].threshold_required
    /\ proposals[last.id].creator \notin DOMAIN proposals[last.id].signatures

\* The action name each audited operation logs when it succeeds
AuditedAs ==
    [op \in {"deposit", "add_signer", "remove_signer", "create_proposal", "sign_proposal",
             "execute_proposal", "cancel_proposal", "trigger_emergency_freeze",
             "sign_emergency_action", "execute_emergency_action", "unfreeze_treasury"} |->
        CASE op = "trigger_emergency_freeze" -> "emergency_freeze_initiated"
          [] op = "sign_emergency_action" -> "emergency_action_signed"
          [] op = "execute_emergency_action" -> "emergency_action_executed"
          [] op = "unfreeze_treasury" -> "treasury_unfrozen"
          [] OTHER -> op]

\* The log after the step is the log before it with one entry, named action
\* and made by the caller, appended
OneEntryAppended(action) ==
    /\ Len(audit_logs') = Len(audit_logs) + 1
    /\ SubSeq(audit_logs', 1, Len(audit_logs)) = audit_logs
    /\ audit_logs'[Len(audit_logs')].action = action
    /\ audit_logs'[Len(audit_logs')].actor = last'.actor

\* C34: the audit log is append-only. Every successful deposit, add_signer,
\* remove_signer, create_proposal, sign_proposal, execute_proposal,
\* cancel_proposal, trigger_emergency_freeze, sign_emergency_action,
\* execute_emergency_action (freeze) and unfreeze_treasury appends exactly one
\* entry with the operation's action name; an execution that fails after its
\* preconditions held appends exactly one execute_proposal_failed entry;
\* every call rejected on its preconditions appends none; and the entries
\* already in the log are never removed, reordered or changed.
C34_AuditLogAppendOnly ==
    [][/\ Len(audit_logs') >= Len(audit_logs)
       /\ SubSeq(audit_logs', 1, Len(audit_logs)) = audit_logs
       /\ IF last'.op \in DOMAIN AuditedAs /\ last'.result = "ok"
          THEN OneEntryAppended(AuditedAs[last'.op])
          ELSE IF /\ last'.op = "execute_proposal"
                  /\ last'.id \in DOMAIN proposals
                  /\ can_execute(proposals[last'.id], last'.time)
          THEN OneEntryAppended("execute_proposal_failed")
          ELSE audit_logs' = audit_logs
      ]_vars

\* After entries of several operations, a failed execution among them, a
\* call has been rejected and has left the log alone
C34_Witness ==
    /\ last.result \in Refusals
    /\ Len(audit_logs) >= 3
    /\ \E k \in DOMAIN audit_logs : audit_logs[k].action = "execute_proposal_failed"
    /\ audit_logs[Len(audit_logs)].action # "execute_proposal_failed"

\* C35: every key of a proposal's signatures map was in config.signers in the
\* state in which the signature was added (only sign_proposal adds one, for
\* its caller); remove_signer leaves every proposal as it was; and the
\* signature of a signer removed since still counts toward
\* threshold_required: execute_proposal goes ahead on the count of all
\* stored signatures and succeeds when the balance covers the transactions.
C35_SignaturesOutliveRemoval ==
    [][/\ \A p \in DOMAIN proposals :
             /\ p \in DOMAIN proposals'
             /\ DOMAIN proposals[p].signatures \subseteq DOMAIN proposals'[p].signatures
             /\ \A s \in DOMAIN proposals'[p].signatures \ DOMAIN proposals[p].signatures :
                   /\ last'.op = "sign_proposal"
                   /\ last'.id = p
                   /\ last'.actor = s
                   /\ s \in signers
       /\ \A p \in DOMAIN proposals' \ DOMAIN proposals :
             DOMAIN proposals'[p].signatures = {}
       /\ last'.op = "remove_signer" => proposals' = proposals
       /\ (/\ last'.op = "execute_proposal"
           /\ last'.id \in DOMAIN proposals
           /\ PreconditionsHold(proposals[last'.id], last'.time))
          => /\ last'.result # "ValueError" \/ proposals'[last'.id].status = FAILED
             /\ (/\ policies = << >>
                 /\ \A k \in DOMAIN proposals[last'.id].transactions :
                       LET transaction == proposals[last'.id].transactions[k] IN
                       /\ transaction.amount > 0
                       /\ transaction.coin_type \in DOMAIN balances
                       /\ SumOfCoin(proposals[last'.id].transactions, k,
                                    transaction.coin_type) <= balances[transaction.coin_type])
                => /\ last'.result = "ok"
                   /\ proposals'[last'.id].status = EXECUTED
      ]_vars

\* A proposal has been executed on the signature of a signer removed before
\* the execution, the current signers' signatures alone falling short
C35_Witness ==
    /\ Did("execute_proposal", "ok")
    /\ proposals[last.id].status = EXECUTED
    /\ DOMAIN proposals[last.id].signatures \ signers # {}
    /\ Cardinality(DOMAIN proposals[last.id].signatures \cap signers)
         < proposals[last.id].threshold_required
    /\ \E k \in DOMAIN audit_logs : audit_logs[k].action = "remove_signer"

\* The calls of EmergencyModule that change its signer set
EmergencySignerCalls == {"add_emergency_signer", "remove_emergency_signer"}

\* C36: the emergency signer set is independent of the main signer set:
\* a successful add_signer leaves emergency_signers unchanged, and
\* add_emergency_signer and remove_emergency_signer leave config.signers
\* unchanged, also for a treasury constructed without emergency signers.
C36_QuorumSetsIndependent ==
    [][/\ (last'.op = "add_signer" /\ last'.result = "ok")
            => emergency_signers' = emergency_signers
       /\ last'.op \in EmergencySignerCalls => signers' = signers]_vars

RECURSIVE DepositedOf(_, _, _)
\* The sum of the deposits of coin_type among the first k audit entries
DepositedOf(logs, k, coin_type) ==
    IF k = 0 THEN 0
    ELSE (IF logs[k].action = "deposit" /\ logs[k].details.coin_type = coin_type
          THEN logs[k].details.amount ELSE 0)
         + DepositedOf(logs, k - 1, coin_type)

RECURSIVE DebitedOf(_, _, _)
\* The sum of the first k spending records whose transaction, named by its
\* hash, is of coin_type
DebitedOf(records, k, coin_type) ==
    IF k = 0 THEN 0
    ELSE (IF records[k].tx_hash[5] = coin_type THEN records[k].amount ELSE 0)
         + DebitedOf(records, k - 1, coin_type)

\* Each coin's balance is what was deposited less what the spending records
\* say was debited
Conserved ==
    \A c \in Coins :
        get_balance(c) = DepositedOf(audit_logs, Len(audit_logs), c)
                         - DebitedOf(spending_records, Len(spending_records), c)

\* The calls that change a balance
BalanceWriters == {"deposit", "execute_proposal"}

\* C37: conservation of funds: after every step each coin's balance is the
\* sum of its accepted deposits less the sum of the transactions of that
\* coin for which a SpendingRecord was appended; only deposit and
\* execute_proposal change a balance, and spending records are only added.
C37_FundsConserved ==
    [][/\ Conserved'
       /\ balances' # balances => last'.op \in BalanceWriters
       /\ Len(spending_records') >= Len(spending_records)
       /\ SubSeq(spending_records', 1, Len(spending_records)) = spending_records
       /\ Len(spending_records') > Len(spending_records)
            => last'.op = "execute_proposal"]_vars

\* An execution has debited the SUI transfer of a mixed proposal, recorded
\* it, and failed on the USDC transfer: the debit stays
C37_Witness ==
    /\ last.op = "execute_proposal"
    /\ last.result = "ValueError"
    /\ last.id \in DOMAIN proposals
    /\ proposals[last.id].transactions = MixedTransfers
    /\ Len(spending_records) = 1
    /\ get_balance("SUI") = 1

\* C38: an emergency action takes effect at most once:
\* execute_emergency_action on an action whose executed flag is already set
\* fails and leaves frozen and last_emergency_at unchanged, so an executed
\* action cannot freeze the treasury again after unfreeze_treasury.
C38_EmergencyActionExecutesOnce ==
    [][(/\ last'.op = "execute_emergency_action"
        /\ last'.id \in DOMAIN actions
        /\ actions[last'.id].executed)
          => /\ last'.result # "ok"
             /\ frozen' = frozen
             /\ last_emergency_at' = last_emergency_at]_vars

\* C39: the emergency cooldown separates freezes: a successful
\* execute_emergency_action at time t that follows an earlier freeze, at
\* last_emergency_at, is at least emergency_cooldown seconds away from it,
\* whatever calls came in between. The freezes compared are those of
\* actions executed for the first time.
C39_CooldownSeparatesFreezes ==
    [][(/\ last'.op = "execute_emergency_action"
        /\ last'.result = "ok"
        /\ last'.id \in DOMAIN actions
        /\ ~actions[last'.id].executed
        /\ last_emergency_at # None)
          => \/ last'.time - last_emergency_at[1] >= EmergencyCooldown
             \/ last_emergency_at[1] - last'.time >= EmergencyCooldown]_vars

\* The proposal once every member of who has signed it
SignedByAll(proposal, who) == [proposal EXCEPT !.signatures = [s \in who |-> "sig"]]

\* C40: every proposal that create_proposal accepts is satisfiable by the
\* signer set: its threshold_required is at least config.threshold and at
\* most the number of signers at creation, so that with the signatures of
\* all current signers it can be executed once its time lock is over.
C40_ThresholdSatisfiable ==
    [][(last'.op = "create_proposal" /\ last'.result = "ok")
       => LET created == proposals'[last'.id] IN
          /\ created.threshold_required >= threshold
          /\ created.threshold_required <= Cardinality(signers)
          /\ can_execute(SignedByAll(created, signers),
                         created.created_at + created.time_lock_duration)]_vars

====
